---------------------------- MODULE Spec2Model ----------------------------
(***************************************************************************)
(* A model of the ReAct orchestration loop of Qharden_mcp:                 *)
(*   app/core/orchestrator.py      run_conversation_step, _execute_tool_call*)
(*                                 _parse_action                           *)
(*   app/core/tool_registry.py     ToolRegistry.execute                    *)
(*   app/services/session_manager.py  SessionManager (Redis session store) *)
(*   app/services/llm_connector.py call_llm                                *)
(*                                                                         *)
(* A text (message content, LLM output) is a sequence of tokens, each a    *)
(* string.  A step invocation is a process p; its program counter pc[p]    *)
(* names the await at which the coroutine is suspended.                    *)
(***************************************************************************)
EXTENDS Naturals, Sequences, FiniteSets, TLC

(***************************************************************************)
(* Bounds of the model.                                                    *)
(***************************************************************************)
\* number of step calls (chat requests) in one behaviour
MaxSteps == 2
\* number of step calls in one behaviour of the specification with fairness
MaxFairSteps == 1
\* number of job ids the job system hands out in one behaviour
MaxJobs == 10
\* number of Redis operations that fail in one behaviour
MaxFaults == 1
\* number of jobs submitted in one behaviour of the concurrent specification
MaxConcJobs == 1
\* number of session manager calls in one behaviour of the store specification
MaxCalls == 3
\* number of modules in a tools package, and of tool classes in one module
MaxModules == 2
MaxMembers == 2

(***************************************************************************)
(* Program constants.                                                      *)
(***************************************************************************)
MAX_TURNS == 10

Procs == {1, 2}

\* session ids the step entry point accepts (ChatRequest.session_id: str)
SessionIds == {"", "s1"}

UserInputs == {"q1"}

\* Conversation.session_id = None
NoneId == "<None>"

ASYNC_TOOLS ==
    { "optimize_structure_with_mace", "download_optimized_structure",
      "optimize_structure_with_xtb", "download_xtb_optimization_result" }

\* tool_registry.tools after discovery: the names of the BaseTool subclasses
RegisteredTools ==
    { "calculate_accessible_volume", "calculate_channel_analysis",
      "convert_structure_file", "optimize_structure_with_mace",
      "download_optimized_structure", "calculate_pore_diameter",
      "calculate_pore_size_distribution", "calculate_probe_occupiable_volume",
      "tavily_search", "analyze_structure_info", "calculate_surface_area",
      "check_task_status", "optimize_structure_with_xtb",
      "download_xtb_optimization_result" }

\* registered tools whose execute takes no conversation parameter
ToolsWithoutConversation == { "tavily_search" }

(***************************************************************************)
(* Tokens.                                                                 *)
(***************************************************************************)
FinalMarker == "Final Answer:"
ActionMarker == "Action:"
Whitespace == { " ", "\n" }
KVTokens == { "task_id=\"1\"", "source_filename=\"a.xyz\"" }
NonWord == { ActionMarker, FinalMarker, "(", ")" } \cup Whitespace \cup KVTokens
IsWord(t) == t \notin NonWord

StuckText == << "I seem to be stuck. Could you please clarify or rephrase your request?" >>
TimeoutText == << "I have reached the maximum number of steps without finding a final answer. Please try reformulating your request." >>

(***************************************************************************)
(* Data model (app/models/common.py).                                      *)
(***************************************************************************)
Message(role, content) == [ role |-> role, content |-> content ]

NewConversation == [ session_id |-> NoneId, messages |-> << >>, workspace |-> {} ]

\* Conversation.model_dump_json(): the JSON document written to Redis
ModelDumpJson(c) ==
    [ json_session_id |-> IF c.session_id = NoneId
                             THEN [ null |-> TRUE,  str |-> "" ]
                             ELSE [ null |-> FALSE, str |-> c.session_id ],
      json_messages   |-> c.messages,
      json_workspace  |-> c.workspace ]

\* variant: the workspace is not read back
ModelValidateJson_NoWorkspace(j) ==
    [ session_id |-> IF j.json_session_id.null THEN NoneId ELSE j.json_session_id.str,
      messages   |-> j.json_messages,
      workspace  |-> {} ]

\* Conversation.model_validate_json(): back from the JSON document
ModelValidateJson(j) ==
    [ session_id |-> IF j.json_session_id.null THEN NoneId ELSE j.json_session_id.str,
      messages   |-> j.json_messages,
      workspace  |-> j.json_workspace ]

\* a value under a session key that is not a Conversation document: Celery's
\* broker and result backend write to the same Redis (REDIS_URL), and a GET
\* of one of their keys raises WRONGTYPE or fails validation
ForeignValue == [ raw |-> "celery" ]

IsConversationJson(v) ==
    DOMAIN v = { "json_session_id", "json_messages", "json_workspace" }

(***************************************************************************)
(* Text helpers.                                                           *)
(***************************************************************************)
Range(f) == { f[i] : i \in DOMAIN f }

Max(S) == CHOOSE x \in S : \A y \in S : y <= x
Min(S) == CHOOSE x \in S : \A y \in S : x <= y

IsPrefix(a, b) == Len(a) <= Len(b) /\ SubSeq(b, 1, Len(a)) = a

\* str.strip(): leading and trailing whitespace removed
Strip(text) ==
    LET keep == { i \in DOMAIN text : text[i] \notin Whitespace }
    IN  IF keep = {} THEN << >> ELSE SubSeq(text, Min(keep), Max(keep))

\* "Final Answer:" in assistant_response_text
HasFinalMarker(text) == FinalMarker \in Range(text)

\* variant: the whole response is the answer
FinalAnswer_Whole(text) == text

\* assistant_response_text.split("Final Answer:")[-1].strip()
FinalAnswer(text) ==
    LET at == { i \in DOMAIN text : text[i] = FinalMarker }
    IN  IF at = {} THEN Strip(text)
        ELSE Strip(SubSeq(text, Max(at) + 1, Len(text)))

\* arg_pattern.findall(tool_args_str): the key=value pairs of the argument text;
\* anything else in it is skipped
ParseArgs(argText) == SelectSeq(argText, LAMBDA t : t \in KVTokens)

\* where the name of an action starting at token i would stand: after "Action:"
\* and any whitespace (\s*)
NameIndex(text, i) ==
    LET after == { j \in DOMAIN text : j > i /\ text[j] \notin Whitespace }
    IN  IF after = {} THEN 0 ELSE Min(after)

\* the closing parentheses the pattern's greedy (.*)\) can end at: on the same
\* line as the opening one
ClosingIndexes(text, open) ==
    { m \in DOMAIN text :
        /\ m > open
        /\ text[m] = ")"
        /\ \A k \in (open + 1)..(m - 1) : text[k] # "\n" }

\* action_pattern matches at token i
ActionMatchesAt(text, i) ==
    LET j == NameIndex(text, i)
    IN  /\ text[i] = ActionMarker
        /\ j # 0
        /\ IsWord(text[j])
        /\ j + 1 \in DOMAIN text
        /\ text[j + 1] = "("
        /\ ClosingIndexes(text, j + 1) # {}

NoAction == [ found |-> FALSE, tool_name |-> "", tool_args |-> << >> ]

\* _parse_action: re.search takes the leftmost match, (.*) the longest
_parse_action(text) ==
    LET starts == { i \in DOMAIN text : ActionMatchesAt(text, i) }
    IN  IF starts = {} THEN NoAction
        ELSE LET i == Min(starts)
                 j == NameIndex(text, i)
                 m == Max(ClosingIndexes(text, j + 1))
             IN  [ found     |-> TRUE,
                   tool_name |-> text[j],
                   tool_args |-> ParseArgs(Strip(SubSeq(text, j + 2, m - 1))) ]

(***************************************************************************)
(* Tools and the Tool Registry (app/tools, app/core/tool_registry.py).     *)
(***************************************************************************)
Returned(text, ws) == [ kind |-> "return", value |-> text, workspace |-> ws ]
Raised(exc, text)  == [ kind |-> "raise",  value |-> << exc >> \o text, workspace |-> {} ]

\* what the service behind a tool does when the tool runs
ToolBehaviours == { "ok", "fault" }

\* the workspace a tool leaves: convert_structure_file writes the converted
\* file next to its source (file_converter_tool.py lines 47-74); the other
\* inline tools write nothing
WorkspaceAfter(tool_name, kwargs, ws) ==
    IF /\ tool_name = "convert_structure_file"
       /\ "source_filename=\"a.xyz\"" \in Range(kwargs)
       /\ "a.xyz" \in ws
    THEN ws \cup { "a.cif" }
    ELSE ws

\* the text a tool returns: convert_structure_file reports a source file
\* that the workspace does not hold (file_converter_tool.py lines 46-48)
ResultText(tool_name, kwargs, ws) ==
    IF tool_name = "convert_structure_file" /\ WorkspaceAfter(tool_name, kwargs, ws) = ws
    THEN << "Error: Source file not found in workspace." >>
    ELSE << "result of", tool_name >> \o kwargs

\* a registered tool's execute, called with the keyword arguments kw: the
\* conversation must be among them for every tool that declares it, and must
\* not be for a tool that does not; the argument binding raises TypeError otherwise
ToolExecute(tool_name, hasConversation, conversation, kwargs, beh) ==
    IF hasConversation # (tool_name \notin ToolsWithoutConversation)
    THEN Raised("TypeError", << tool_name, "execute() argument mismatch" >>)
    ELSE IF beh = "ok"
         THEN Returned(ResultText(tool_name, kwargs, conversation.workspace),
                       WorkspaceAfter(tool_name, kwargs, conversation.workspace))
         ELSE Raised("ToolExecutionError", << tool_name >>)

\* the parameters ToolRegistry.execute declares besides self
RegistryExecuteParams == { "tool_name", "kwargs" }

\* variant: the registry takes the conversation and hands it to the tool
RegistryExecute_Forwarding(keywords, tool_name, conversation, kwargs, beh) ==
    IF tool_name \in RegisteredTools
    THEN ToolExecute(tool_name, tool_name \notin ToolsWithoutConversation,
                     conversation, kwargs, beh)
    ELSE Raised("ValueError", << "Tool", tool_name, "not found." >>)

\* ToolRegistry.execute called with the keyword arguments named in `keywords`
RegistryExecute(keywords, tool_name, conversation, kwargs, beh) ==
    IF ~ (keywords \subseteq RegistryExecuteParams)
    THEN Raised("TypeError", << "execute() got an unexpected keyword argument" >>)
    ELSE IF tool_name \in RegisteredTools
         THEN ToolExecute(tool_name, FALSE, conversation, kwargs, beh)
         ELSE Raised("ValueError", << "Tool", tool_name, "not found." >>)

\* the keyword arguments _execute_tool_call passes to tool_registry.execute
OrchestratorCallKeywords == { "tool_name", "conversation", "kwargs" }

(***************************************************************************)
(* LLM Gateway (app/services/llm_connector.py).                            *)
(***************************************************************************)
\* what the provider can answer to one chat completion request
LLMTexts ==
    { << "Thought" >>,
      << "Thought", FinalMarker, " ", "X", "\n" >>,
      << ActionMarker, " ", "optimize_structure_with_mace", "(", "source_filename=\"a.xyz\"", ")" >>,
      << ActionMarker, "check_task_status", "(", "task_id=\"1\"", ")" >>,
      << ActionMarker, " ", "check_task_status", "(", "garbage", ")" >>,
      << ActionMarker, "no_such_tool", "(", ")" >>,
      << ActionMarker, "foo", "(" >> }

\* a response without text may carry a structured invocation (content None,
\* tool_calls set)
Upstream ==
    [ kind : { "ok" }, text : LLMTexts ]
        \cup { [ kind |-> "tool_calls", text |-> << >> ],
               [ kind |-> "api_error",  text |-> << >> ],
               [ kind |-> "error",      text |-> << >> ] }

\* the tool_calls field of the Message call_llm returns
\* (Message.model_validate(response_message.model_dump()))
ResponseToolCalls(up) ==
    IF up.kind = "tool_calls"
    THEN << [ id |-> "call_1", tool_name |-> "check_task_status",
              arguments |-> << "task_id=\"1\"" >> ] >>
    ELSE << >>

\* variant: a structured invocation is rendered as an action line of the content
call_llm_RenderingToolCalls(up) ==
    CASE up.kind = "ok"         -> Message("assistant", up.text)
      [] up.kind = "tool_calls" -> Message("assistant", << ActionMarker, "check_task_status", "(",
                                                           "task_id=\"1\"", ")" >>)
      [] up.kind = "api_error"  -> Message("assistant", << "Error from LLM provider:", "Unknown API Error" >>)
      [] OTHER                  -> Message("assistant", << "An unexpected error occurred:" >>)

\* variant: the error description repeats an action line of the request
call_llm_EchoingError(up) ==
    CASE up.kind = "ok"        -> Message("assistant", up.text)
      [] up.kind = "tool_calls" -> Message("assistant", << >>)
      [] up.kind = "api_error" -> Message("assistant", << "Error from LLM provider:", "Unknown API Error" >>)
      [] OTHER                 -> Message("assistant", << "An unexpected error occurred:", ActionMarker,
                                                          "check_task_status", "(", ")" >>)

\* call_llm: a provider failure comes back as an assistant message; the content
\* is what the step reads of the Message (llm_response.content or "", line 146)
call_llm(up) ==
    CASE up.kind = "ok"         -> Message("assistant", up.text)
      [] up.kind = "tool_calls" -> Message("assistant", << >>)
      [] up.kind = "api_error"  -> Message("assistant", << "Error from LLM provider:", "Unknown API Error" >>)
      [] OTHER                  -> Message("assistant", << "An unexpected error occurred:" >>)

(***************************************************************************)
(* Message texts the orchestrator builds.                                  *)
(***************************************************************************)
SystemMessage == Message("system", << "SYSTEM_PROMPT" >>)

\* _execute_tool_call, async branch: the text announcing the submitted job
SubmittedText(tool_name, task_id) ==
    << "The long-running task", tool_name,
       "has been submitted successfully. The task ID is", ToString(task_id),
       "Use the 'check_task_status' tool to check for its completion." >>

\* f"Observation: {observation}" with observation a Message: str(Message)
ObservationMessage(observation) ==
    Message("user",
            << "Observation:", "role=", observation.role, "content=" >>
                \o observation.content
                \o << "tool_calls=None", "tool_call_id=None" >>)

(***************************************************************************)
(* State.                                                                  *)
(***************************************************************************)
VARIABLES
    store,         \* Redis: session key -> JSON document (absent keys are not in the domain)
    ttl,           \* Redis: session key -> the seconds the key has left to live
    jobs,          \* the jobs submitted to the job system, in submission order
    steps,         \* number of step calls made so far
    faults,        \* number of Redis operations that have failed so far
    pc,            \* per step invocation: the await it is suspended at
    session_id,    \* run_conversation_step's session_id argument
    user_input,    \* run_conversation_step's user_input argument
    conversation,  \* the step's in-memory Conversation
    turn,          \* the loop variable of `for turn in range(MAX_TURNS)`
    action,        \* the parsed action whose inline execution is awaited
    result,        \* what the call ended with: the returned Message or the exception
    llmCalls,      \* number of call_llm calls the step has made
    replies,       \* the texts the LLM Gateway returned to the step, in order
    toolCalls,     \* the tool_calls of the Messages call_llm returned to the step, in order
    appended,      \* the messages the step appended to its conversation, in order
    loadedLen,     \* length of the message log the step's load returned
    loadReachable, \* whether Redis answered the step's load
    submitted,     \* the ids of the jobs the step submitted, in order
    worker,        \* per job a Celery worker has picked up: its coroutine's await and Conversation
    tools,         \* ToolRegistry.tools: tool name -> the class of the registered instance
    modules,       \* the modules of the tools package _discover_tools has yet to scan
    probe          \* the session manager calls of a direct client, and the last one's result

vars == << store, ttl, jobs, steps, faults, pc, session_id, user_input, conversation, turn,
           action, result, llmCalls, replies, toolCalls, appended, loadedLen,
           loadReachable, submitted, worker, tools, modules, probe >>

\* what a step leaves alone: the job worker, the registry, the direct client
outsideStep == << worker, tools, modules, probe >>

NoResult == [ kind |-> "none", role |-> "", content |-> << >> ]
ReturnMessage(m) == [ kind |-> "message", role |-> m.role, content |-> m.content ]
RaiseException(o) == [ kind |-> "exception", role |-> "", content |-> o.value ]

EmptyStore == [ k \in {} |-> ModelDumpJson(NewConversation) ]

\* SessionManager._session_ttl: the lifetime a save gives the key, in seconds
_session_ttl == 86400

\* no key, no lifetime
NoTtl == [ k \in {} |-> _session_ttl ]

\* no job picked up yet
NoWorker == [ j \in {} |-> [ pc |-> "", conversation |-> NewConversation ] ]

\* tool_registry = ToolRegistry() at import: every tool class of the package,
\* under its name
DiscoveredTools == [ n \in RegisteredTools |-> n ]

NoTools == [ n \in {} |-> "" ]

\* the keys a direct client of the session manager uses
StoreKeys == SessionIds

NoProbe ==
    [ calls     |-> 0,
      op        |-> "none",
      key       |-> "",
      reachable |-> TRUE,
      result    |-> NewConversation,
      arg       |-> NewConversation,
      outcome   |-> "none",
      text      |-> << >>,
      status    |-> "",
      saved     |-> [ k \in StoreKeys |->
                        [ called |-> FALSE, conv |-> NewConversation, reachable |-> TRUE ] ] ]

\* the orchestrator and the worker before the first request
InitCallers ==
    /\ worker = NoWorker
    /\ steps = 0
    /\ pc = [ p \in Procs |-> "idle" ]
    /\ session_id = [ p \in Procs |-> "" ]
    /\ user_input = [ p \in Procs |-> "" ]
    /\ conversation = [ p \in Procs |-> NewConversation ]
    /\ turn = [ p \in Procs |-> 0 ]
    /\ action = [ p \in Procs |-> NoAction ]
    /\ result = [ p \in Procs |-> NoResult ]
    /\ llmCalls = [ p \in Procs |-> 0 ]
    /\ replies = [ p \in Procs |-> << >> ]
    /\ toolCalls = [ p \in Procs |-> << >> ]
    /\ appended = [ p \in Procs |-> << >> ]
    /\ loadedLen = [ p \in Procs |-> 0 ]
    /\ loadReachable = [ p \in Procs |-> FALSE ]
    /\ submitted = [ p \in Procs |-> << >> ]

\* the orchestrator and the job system before the first request
InitSteps ==
    /\ jobs = << >>
    /\ InitCallers

Init ==
    /\ InitSteps
    /\ faults = 0
    /\ store = EmptyStore
    /\ ttl = NoTtl
    /\ tools = DiscoveredTools
    /\ modules = << >>
    /\ probe = NoProbe

(***************************************************************************)
(* Session Store (app/services/session_manager.py).                        *)
(***************************************************************************)
\* whether a Redis operation goes through: it may fail while failures are left
RedisOutcomes == IF faults < MaxFaults THEN BOOLEAN ELSE { TRUE }

CountFault(reachable) == faults' = IF reachable THEN faults ELSE faults + 1

\* variant: every conversation is written under one shared key
save_conversation_SharedKey(key, conv, reachable) ==
    /\ store' = IF reachable THEN ("s1" :> ModelDumpJson(conv)) @@ store ELSE store
    /\ ttl' = IF reachable THEN ("s1" :> _session_ttl) @@ ttl ELSE ttl
    /\ CountFault(reachable)

\* variant: the save does not replace a value already stored (SET ... NX)
save_conversation_IfAbsent(key, conv, reachable) ==
    /\ store' = IF reachable /\ key \notin DOMAIN store
                THEN (key :> ModelDumpJson(conv)) @@ store ELSE store
    /\ ttl' = IF reachable /\ key \notin DOMAIN store
              THEN (key :> _session_ttl) @@ ttl ELSE ttl
    /\ CountFault(reachable)

\* variant: the save keeps the lifetime a stored key has left (SET ... KEEPTTL)
save_conversation_KeepTtl(key, conv, reachable) ==
    /\ store' = IF reachable THEN (key :> ModelDumpJson(conv)) @@ store ELSE store
    /\ ttl' = IF reachable /\ key \notin DOMAIN store
              THEN (key :> _session_ttl) @@ ttl ELSE ttl
    /\ CountFault(reachable)

\* save_conversation: SET key json EX ttl; a Redis failure is logged and swallowed
save_conversation(key, conv, reachable) ==
    /\ store' = IF reachable THEN (key :> ModelDumpJson(conv)) @@ store ELSE store
    /\ ttl' = IF reachable THEN (key :> _session_ttl) @@ ttl ELSE ttl
    /\ CountFault(reachable)

\* variant: the load ignores what is stored
get_conversation_Forgetful(key, reachable) == NewConversation

\* variant: a load that finds Redis failing answers from the last value it saw
get_conversation_Cached(key, reachable) ==
    IF key \in DOMAIN store /\ IsConversationJson(store[key])
    THEN ModelValidateJson(store[key])
    ELSE NewConversation

\* get_conversation: the stored conversation, or a new one when the key is
\* absent, when Redis fails and when the value does not validate (every
\* exception is caught, lines 70-72)
get_conversation(key, reachable) ==
    IF reachable /\ key \in DOMAIN store /\ IsConversationJson(store[key])
    THEN ModelValidateJson(store[key])
    ELSE NewConversation

\* the message log stored under a key (empty when the key is absent)
StoredMessages(key) ==
    IF key \in DOMAIN store THEN ModelValidateJson(store[key]).messages ELSE << >>

Append2(conv, msgs) == [ conv EXCEPT !.messages = @ \o msgs ]

(***************************************************************************)
(* run_conversation_step (app/core/orchestrator.py).                       *)
(***************************************************************************)
Ended(p) == pc[p] \in { "returned", "raised" }

\* the caller (chat_with_mcp) awaits run_conversation_step(session_id, user_input)
StartStep(p, s, u) ==
    /\ pc[p] = "idle" \/ Ended(p)
    /\ steps < MaxSteps
    /\ steps' = steps + 1
    /\ pc' = [ pc EXCEPT ![p] = "get_conversation" ]
    /\ session_id' = [ session_id EXCEPT ![p] = s ]
    /\ user_input' = [ user_input EXCEPT ![p] = u ]
    /\ conversation' = [ conversation EXCEPT ![p] = NewConversation ]
    /\ turn' = [ turn EXCEPT ![p] = 0 ]
    /\ action' = [ action EXCEPT ![p] = NoAction ]
    /\ result' = [ result EXCEPT ![p] = NoResult ]
    /\ llmCalls' = [ llmCalls EXCEPT ![p] = 0 ]
    /\ replies' = [ replies EXCEPT ![p] = << >> ]
    /\ toolCalls' = [ toolCalls EXCEPT ![p] = << >> ]
    /\ appended' = [ appended EXCEPT ![p] = << >> ]
    /\ loadedLen' = [ loadedLen EXCEPT ![p] = 0 ]
    /\ loadReachable' = [ loadReachable EXCEPT ![p] = FALSE ]
    /\ submitted' = [ submitted EXCEPT ![p] = << >> ]
    /\ UNCHANGED << store, ttl, jobs, faults >>
    /\ UNCHANGED outsideStep

\* variant: a conversation without a session id is seeded and its session id
\* is left unset
GetConversation_NoSessionId(p) ==
    /\ pc[p] = "get_conversation"
    /\ \E reachable \in RedisOutcomes :
         LET loaded == get_conversation(session_id[p], reachable)
             fresh  == loaded.session_id \in { NoneId, "" }
             seeded == IF fresh
                       THEN [ loaded EXCEPT !.messages = @ \o << SystemMessage >> ]
                       ELSE loaded
             new    == (IF fresh THEN << SystemMessage >> ELSE << >>)
                           \o << Message("user", << user_input[p] >>) >>
         IN  /\ conversation' = [ conversation EXCEPT ![p] =
                                    Append2(seeded, << Message("user", << user_input[p] >>) >>) ]
             /\ appended' = [ appended EXCEPT ![p] = new ]
             /\ loadedLen' = [ loadedLen EXCEPT ![p] = Len(loaded.messages) ]
             /\ loadReachable' = [ loadReachable EXCEPT ![p] = reachable ]
             /\ CountFault(reachable)
    /\ pc' = [ pc EXCEPT ![p] = "save_user" ]
    /\ UNCHANGED << store, ttl, jobs, steps, session_id, user_input, turn, action,
                    result, llmCalls, replies, toolCalls, submitted >>
    /\ UNCHANGED outsideStep

\* lines 122-132: load, seed the system prompt when the conversation has no
\* (truthy) session id, append the user turn
GetConversation(p) ==
    /\ pc[p] = "get_conversation"
    /\ \E reachable \in RedisOutcomes :
         LET loaded == get_conversation(session_id[p], reachable)
             fresh  == loaded.session_id \in { NoneId, "" }
             seeded == IF fresh
                       THEN [ loaded EXCEPT !.session_id = session_id[p],
                                            !.messages = @ \o << SystemMessage >> ]
                       ELSE loaded
             new    == (IF fresh THEN << SystemMessage >> ELSE << >>)
                           \o << Message("user", << user_input[p] >>) >>
         IN  /\ conversation' = [ conversation EXCEPT ![p] =
                                    Append2(seeded, << Message("user", << user_input[p] >>) >>) ]
             /\ appended' = [ appended EXCEPT ![p] = new ]
             /\ loadedLen' = [ loadedLen EXCEPT ![p] = Len(loaded.messages) ]
             /\ loadReachable' = [ loadReachable EXCEPT ![p] = reachable ]
             /\ CountFault(reachable)
    /\ pc' = [ pc EXCEPT ![p] = "save_user" ]
    /\ UNCHANGED << store, ttl, jobs, steps, session_id, user_input, turn, action,
                    result, llmCalls, replies, toolCalls, submitted >>
    /\ UNCHANGED outsideStep

\* variant: one iteration too many
LoopContinues_OffByOne(t) == t <= MAX_TURNS

\* `for turn in range(MAX_TURNS)`: whether the loop body runs for this value
LoopContinues(t) == t < MAX_TURNS

\* the head of the loop with the loop variable at t: the next call_llm, or,
\* the range exhausted, lines 176-178: return the timeout message
LoopHead(p, t) ==
    /\ turn' = [ turn EXCEPT ![p] = t ]
    /\ IF LoopContinues(t)
       THEN /\ pc' = [ pc EXCEPT ![p] = "call_llm" ]
            /\ result' = result
       ELSE /\ pc' = [ pc EXCEPT ![p] = "returned" ]
            /\ result' = [ result EXCEPT ![p] =
                             ReturnMessage(Message("assistant", TimeoutText)) ]

\* variant: a failure of the save leaves run_conversation_step as an exception
SaveUser_Propagating(p) ==
    /\ pc[p] = "save_user"
    /\ \E reachable \in RedisOutcomes :
         /\ save_conversation(session_id[p], conversation[p], reachable)
         /\ IF reachable
            THEN LoopHead(p, 0)
            ELSE /\ pc' = [ pc EXCEPT ![p] = "raised" ]
                 /\ result' = [ result EXCEPT ![p] =
                                  RaiseException(Raised("ConnectionError", << "redis" >>)) ]
                 /\ turn' = turn
    /\ UNCHANGED << jobs, steps, session_id, user_input, conversation,
                    action, llmCalls, replies, toolCalls, appended, loadedLen,
                    loadReachable, submitted >>
    /\ UNCHANGED outsideStep

\* variant: the loop is entered without the save of line 133
SaveUser_NotSaving(p) ==
    /\ pc[p] = "save_user"
    /\ UNCHANGED << store, ttl, faults >>
    /\ LoopHead(p, 0)
    /\ UNCHANGED << jobs, steps, session_id, user_input, conversation,
                    action, llmCalls, replies, toolCalls, appended, loadedLen,
                    loadReachable, submitted >>
    /\ UNCHANGED outsideStep

\* line 133: save, then enter the loop
SaveUser(p) ==
    /\ pc[p] = "save_user"
    /\ \E reachable \in RedisOutcomes :
         save_conversation(session_id[p], conversation[p], reachable)
    /\ LoopHead(p, 0)
    /\ UNCHANGED << jobs, steps, session_id, user_input, conversation,
                    action, llmCalls, replies, toolCalls, appended, loadedLen,
                    loadReachable, submitted >>
    /\ UNCHANGED outsideStep

\* _execute_tool_call, lines 96-105: execute_tool_task.delay(...) queues the job
\* and hands back its id
SubmitJob(conv, act) ==
    [ id         |-> Len(jobs) + 1,
      session_id |-> conv.session_id,
      tool_name  |-> act.tool_name,
      tool_args  |-> act.tool_args,
      state      |-> "PENDING",
      expired    |-> FALSE ]

\* whether a provider answer asks for a tool of the async set
RequestsAsync(up) ==
    LET text == call_llm(up).content
    IN  /\ ~ HasFinalMarker(text)
        /\ _parse_action(text).found
        /\ _parse_action(text).tool_name \in ASYNC_TOOLS

\* FINAL, lines 150-152: the response is in the log, the save of line 153 is
\* awaited next
Final(p, conv, text) ==
    /\ conversation' = [ conversation EXCEPT ![p] = conv ]
    /\ appended' = [ appended EXCEPT ![p] = Append(@, Message("assistant", text)) ]
    /\ pc' = [ pc EXCEPT ![p] = "save_final" ]
    /\ UNCHANGED << jobs, action, result, submitted >>

\* variant: async dispatch ends the turn loop; the announcement is appended as
\* an assistant message, saved and returned
DispatchAsync_Terminal(p, conv, text, act) ==
    LET job == SubmitJob(conv, act)
        msg == Message("assistant", SubmittedText(act.tool_name, job.id))
    IN  /\ jobs' = Append(jobs, job)
        /\ submitted' = [ submitted EXCEPT ![p] = Append(@, job.id) ]
        /\ conversation' = [ conversation EXCEPT ![p] = Append2(conv, << msg >>) ]
        /\ appended' = [ appended EXCEPT ![p] = @ \o << Message("assistant", text), msg >> ]
        /\ pc' = [ pc EXCEPT ![p] = "save_final" ]
        /\ UNCHANGED << action, result >>

\* _execute_tool_call's async branch (lines 96-105) and lines 167-168: the job
\* is queued, its announcement is appended as the observation, the save of
\* line 169 is awaited next
DispatchAsync(p, conv, text, act) ==
    LET job == SubmitJob(conv, act)
        obs == ObservationMessage(Message("tool", SubmittedText(act.tool_name, job.id)))
    IN  /\ jobs' = Append(jobs, job)
        /\ submitted' = [ submitted EXCEPT ![p] = Append(@, job.id) ]
        /\ conversation' = [ conversation EXCEPT ![p] = Append2(conv, << obs >>) ]
        /\ appended' = [ appended EXCEPT ![p] = @ \o << Message("assistant", text), obs >> ]
        /\ pc' = [ pc EXCEPT ![p] = "save_observation" ]
        /\ UNCHANGED << action, result >>

\* variant: the inline tool call is started and not awaited; the loop goes on
\* to its next call_llm
CallSyncTool_NotAwaited(p, conv, text, act) ==
    /\ conversation' = [ conversation EXCEPT ![p] = conv ]
    /\ appended' = [ appended EXCEPT ![p] = Append(@, Message("assistant", text)) ]
    /\ action' = [ action EXCEPT ![p] = act ]
    /\ pc' = [ pc EXCEPT ![p] = "call_llm" ]
    /\ UNCHANGED << jobs, result, submitted >>

\* _execute_tool_call's inline branch up to its await: tool_registry.execute(...)
\* is called next
CallSyncTool(p, conv, text, act) ==
    /\ conversation' = [ conversation EXCEPT ![p] = conv ]
    /\ appended' = [ appended EXCEPT ![p] = Append(@, Message("assistant", text)) ]
    /\ action' = [ action EXCEPT ![p] = act ]
    /\ pc' = [ pc EXCEPT ![p] = "tool_registry_execute" ]
    /\ UNCHANGED << jobs, result, submitted >>

\* variant: a stalled turn appends a forcing continuation and loops again
Stalled_Forcing(p, conv, text) ==
    LET force == Message("user", << "Please continue with an Action or a Final Answer." >>)
    IN  /\ conversation' = [ conversation EXCEPT ![p] = Append2(conv, << force >>) ]
        /\ appended' = [ appended EXCEPT ![p] = @ \o << Message("assistant", text), force >> ]
        /\ pc' = [ pc EXCEPT ![p] = "save_observation" ]
        /\ UNCHANGED << jobs, action, result, submitted >>

\* variant: the two policies mixed; the first turn ends the step, a later
\* turn forces a continuation
Stalled_Mixed(p, conv, text) ==
    IF turn[p] = 0
    THEN /\ conversation' = [ conversation EXCEPT ![p] = conv ]
         /\ appended' = [ appended EXCEPT ![p] = Append(@, Message("assistant", text)) ]
         /\ result' = [ result EXCEPT ![p] = ReturnMessage(Message("assistant", StuckText)) ]
         /\ pc' = [ pc EXCEPT ![p] = "returned" ]
         /\ UNCHANGED << jobs, action, submitted >>
    ELSE Stalled_Forcing(p, conv, text)

\* STALLED, lines 170-173: neither marker nor action; the step returns
Stalled(p, conv, text) ==
    /\ conversation' = [ conversation EXCEPT ![p] = conv ]
    /\ appended' = [ appended EXCEPT ![p] = Append(@, Message("assistant", text)) ]
    /\ result' = [ result EXCEPT ![p] = ReturnMessage(Message("assistant", StuckText)) ]
    /\ pc' = [ pc EXCEPT ![p] = "returned" ]
    /\ UNCHANGED << jobs, action, submitted >>

\* variant: the response is parsed for an action before the marker is looked for
LLMRespondsWith_ActionFirst(p, up) ==
    /\ pc[p] = "call_llm"
    /\ RequestsAsync(up) => Len(jobs) < MaxJobs
    /\ LET text == call_llm(up).content
           conv == Append2(conversation[p], << Message("assistant", text) >>)
           act  == _parse_action(text)
       IN  /\ llmCalls' = [ llmCalls EXCEPT ![p] = @ + 1 ]
           /\ replies' = [ replies EXCEPT ![p] = Append(@, text) ]
           /\ toolCalls' = [ toolCalls EXCEPT ![p] = Append(@, ResponseToolCalls(up)) ]
           /\ IF act.found
              THEN IF act.tool_name \in ASYNC_TOOLS THEN DispatchAsync(p, conv, text, act)
                   ELSE CallSyncTool(p, conv, text, act)
              ELSE IF HasFinalMarker(text) THEN Final(p, conv, text)
              ELSE Stalled(p, conv, text)
    /\ UNCHANGED << store, ttl, steps, faults, session_id, user_input, turn, loadedLen,
                    loadReachable >>
    /\ UNCHANGED outsideStep

\* lines 144-173 up to the next await: call_llm returns, the response is
\* appended (line 147) and classified
LLMRespondsWith(p, up) ==
    /\ pc[p] = "call_llm"
    /\ RequestsAsync(up) => Len(jobs) < MaxJobs
    /\ LET text == call_llm(up).content
           conv == Append2(conversation[p], << Message("assistant", text) >>)
           act  == _parse_action(text)
       IN  /\ llmCalls' = [ llmCalls EXCEPT ![p] = @ + 1 ]
           /\ replies' = [ replies EXCEPT ![p] = Append(@, text) ]
           /\ toolCalls' = [ toolCalls EXCEPT ![p] = Append(@, ResponseToolCalls(up)) ]
           /\ IF HasFinalMarker(text) THEN Final(p, conv, text)
              ELSE IF ~ act.found THEN Stalled(p, conv, text)
              ELSE IF act.tool_name \in ASYNC_TOOLS THEN DispatchAsync(p, conv, text, act)
              ELSE CallSyncTool(p, conv, text, act)
    /\ UNCHANGED << store, ttl, steps, faults, session_id, user_input, turn, loadedLen,
                    loadReachable >>
    /\ UNCHANGED outsideStep

\* the provider answers one of LLMTexts or fails
LLMResponds(p) == \E up \in Upstream : LLMRespondsWith(p, up)

\* _execute_tool_call, lines 107-113, and lines 167-168: the inline call of the
\* registry; an exception of the call leaves run_conversation_step
ExecuteSyncTool(p) ==
    /\ pc[p] = "tool_registry_execute"
    /\ \E beh \in ToolBehaviours :
         LET out == RegistryExecute(OrchestratorCallKeywords, action[p].tool_name,
                                    conversation[p], action[p].tool_args, beh)
             obs == ObservationMessage(Message("tool", out.value))
         IN  IF out.kind = "raise"
             THEN /\ result' = [ result EXCEPT ![p] = RaiseException(out) ]
                  /\ pc' = [ pc EXCEPT ![p] = "raised" ]
                  /\ UNCHANGED << conversation, appended >>
             ELSE /\ conversation' = [ conversation EXCEPT ![p] =
                                         [ Append2(@, << obs >>) EXCEPT !.workspace = out.workspace ] ]
                  /\ appended' = [ appended EXCEPT ![p] = Append(@, obs) ]
                  /\ pc' = [ pc EXCEPT ![p] = "save_observation" ]
                  /\ UNCHANGED result
    /\ action' = [ action EXCEPT ![p] = NoAction ]
    /\ UNCHANGED submitted
    /\ UNCHANGED << store, ttl, jobs, steps, faults, session_id, user_input, turn,
                    llmCalls, replies, toolCalls, loadedLen, loadReachable >>
    /\ UNCHANGED outsideStep

\* lines 153-155: save, return the final answer
SaveFinal(p) ==
    /\ pc[p] = "save_final"
    /\ \E reachable \in RedisOutcomes :
         save_conversation(session_id[p], conversation[p], reachable)
    /\ LET text == conversation[p].messages[Len(conversation[p].messages)].content
       IN  result' = [ result EXCEPT ![p] =
                         ReturnMessage(Message("assistant", FinalAnswer(text))) ]
    /\ pc' = [ pc EXCEPT ![p] = "returned" ]
    /\ UNCHANGED << jobs, steps, session_id, user_input, conversation, turn,
                    action, llmCalls, replies, toolCalls, appended, loadedLen,
                    loadReachable, submitted >>
    /\ UNCHANGED outsideStep

\* variant: when the budget is used up the timeout message is appended to the
\* log and saved with it
SaveObservation_LogsTimeout(p) ==
    /\ pc[p] = "save_observation"
    /\ LET conv == IF LoopContinues(turn[p] + 1)
                   THEN conversation[p]
                   ELSE Append2(conversation[p], << Message("assistant", TimeoutText) >>)
       IN  /\ \E reachable \in RedisOutcomes :
                 save_conversation(session_id[p], conv, reachable)
           /\ conversation' = [ conversation EXCEPT ![p] = conv ]
    /\ LoopHead(p, turn[p] + 1)
    /\ UNCHANGED << jobs, steps, session_id, user_input,
                    action, llmCalls, replies, toolCalls, appended, loadedLen,
                    loadReachable, submitted >>
    /\ UNCHANGED outsideStep

\* line 169: save, then the next iteration of the loop
SaveObservation(p) ==
    /\ pc[p] = "save_observation"
    /\ \E reachable \in RedisOutcomes :
         save_conversation(session_id[p], conversation[p], reachable)
    /\ LoopHead(p, turn[p] + 1)
    /\ UNCHANGED << jobs, steps, session_id, user_input, conversation,
                    action, llmCalls, replies, toolCalls, appended, loadedLen,
                    loadReachable, submitted >>
    /\ UNCHANGED outsideStep

StepNext(p) ==
    \/ GetConversation(p)
    \/ SaveUser(p)
    \/ LLMResponds(p)
    \/ ExecuteSyncTool(p)
    \/ SaveFinal(p)
    \/ SaveObservation(p)

\* classification of one model response, as run_conversation_step classifies it
IsStalledText(text) == ~ HasFinalMarker(text) /\ ~ _parse_action(text).found
IsToolRequest(text) == ~ HasFinalMarker(text) /\ _parse_action(text).found
IsAsyncRequest(text) ==
    IsToolRequest(text) /\ _parse_action(text).tool_name \in ASYNC_TOOLS
IsSyncRequest(text) ==
    IsToolRequest(text) /\ _parse_action(text).tool_name \notin ASYNC_TOOLS
IsRegisteredSyncRequest(text) ==
    IsSyncRequest(text) /\ _parse_action(text).tool_name \in RegisteredTools
IsUnregisteredRequest(text) ==
    IsSyncRequest(text) /\ _parse_action(text).tool_name \notin RegisteredTools

(***************************************************************************)
(* The steps of one session, executed one after another: a single caller,  *)
(* process 1, that stays with the session id of its first request.         *)
(***************************************************************************)
NextStepOfSession(p, s, u) ==
    /\ steps = 0 \/ s = session_id[p]
    /\ StartStep(p, s, u)

Next ==
    \/ \E s \in SessionIds, u \in UserInputs : NextStepOfSession(1, s, u)
    \/ StepNext(1)

Spec == Init /\ [][Next]_vars

\* the same caller under the assumption that every awaited call of a step
\* (Redis, the LLM Gateway, the registry) returns
FairNext ==
    \/ \E s \in SessionIds, u \in UserInputs :
          steps < MaxFairSteps /\ NextStepOfSession(1, s, u)
    \/ StepNext(1)

FairSpec == Init /\ [][FairNext]_vars /\ WF_vars(StepNext(1))

(***************************************************************************)
(* The job worker (app/tasks.py, app/worker.py).                           *)
(***************************************************************************)
\* job j has come to its end
JobCompleted(j) == jobs[j].state \in { "SUCCESS", "FAILURE" }

\* the keyword arguments _async_execute_and_save passes to tool_registry.execute
WorkerCallKeywords == { "tool_name", "conversation", "kwargs" }

\* what neither the worker nor a step of another process touches
outsideWorker ==
    << steps, pc, session_id, user_input, conversation, turn, action, result,
       llmCalls, replies, toolCalls, appended, loadedLen, loadReachable, submitted,
       tools, modules, probe >>

\* a Celery worker takes a queued job: the task is marked STARTED
\* (task_track_started) and asyncio.run enters _async_execute_and_save, which
\* awaits its load
WorkerStart(j) ==
    /\ j \in DOMAIN jobs
    /\ jobs[j].state = "PENDING"
    /\ jobs' = [ jobs EXCEPT ![j].state = "STARTED" ]
    /\ worker' = (j :> [ pc |-> "get_conversation", conversation |-> NewConversation ]) @@ worker
    /\ UNCHANGED << store, ttl, faults >>
    /\ UNCHANGED outsideWorker

\* tasks.py lines 20-22: the load returns; the session id is set when missing
WorkerLoaded(j) ==
    /\ \E reachable \in RedisOutcomes :
         LET loaded == get_conversation(jobs[j].session_id, reachable)
             conv   == IF loaded.session_id \in { NoneId, "" }
                       THEN [ loaded EXCEPT !.session_id = jobs[j].session_id ]
                       ELSE loaded
         IN  /\ worker' = [ worker EXCEPT ![j] =
                              [ pc |-> "tool_registry_execute", conversation |-> conv ] ]
             /\ CountFault(reachable)
    /\ UNCHANGED << store, ttl, jobs >>

\* variant: execute_tool_task logs the exception and returns instead of
\* raising it again
WorkerExecuted_Swallowing(j) ==
    /\ \E beh \in ToolBehaviours :
         LET out == RegistryExecute(WorkerCallKeywords, jobs[j].tool_name,
                                    worker[j].conversation, jobs[j].tool_args, beh)
         IN  IF out.kind = "raise"
             THEN /\ worker' = [ worker EXCEPT ![j].pc = "raised" ]
                  /\ jobs' = [ jobs EXCEPT ![j].state = "SUCCESS" ]
             ELSE /\ worker' = [ worker EXCEPT ![j] =
                                   [ pc |-> "save_conversation",
                                     conversation |->
                                         [ Append2(worker[j].conversation,
                                                   << Message("tool", out.value) >>)
                                             EXCEPT !.workspace = out.workspace ] ] ]
                  /\ jobs' = jobs
    /\ UNCHANGED << store, ttl, faults >>

\* tasks.py lines 25-34: the registry call returns or raises; an exception
\* leaves the task (lines 57-59), which Celery records as FAILURE
WorkerExecuted(j) ==
    /\ \E beh \in ToolBehaviours :
         LET out == RegistryExecute(WorkerCallKeywords, jobs[j].tool_name,
                                    worker[j].conversation, jobs[j].tool_args, beh)
         IN  IF out.kind = "raise"
             THEN /\ worker' = [ worker EXCEPT ![j].pc = "raised" ]
                  /\ jobs' = [ jobs EXCEPT ![j].state = "FAILURE" ]
             ELSE /\ worker' = [ worker EXCEPT ![j] =
                                   [ pc |-> "save_conversation",
                                     conversation |->
                                         [ Append2(worker[j].conversation,
                                                   << Message("tool", out.value) >>)
                                             EXCEPT !.workspace = out.workspace ] ] ]
                  /\ jobs' = jobs
    /\ UNCHANGED << store, ttl, faults >>

\* tasks.py lines 37-39: the save returns, the task returns the result text
WorkerSaved(j) ==
    /\ \E reachable \in RedisOutcomes :
         save_conversation(jobs[j].session_id, worker[j].conversation, reachable)
    /\ worker' = [ worker EXCEPT ![j].pc = "returned" ]
    /\ jobs' = [ jobs EXCEPT ![j].state = "SUCCESS" ]

\* the worker's event loop resumes _async_execute_and_save at its await
WorkerResumes(j) ==
    /\ j \in DOMAIN worker
    /\ CASE worker[j].pc = "get_conversation"       -> WorkerLoaded(j)
         [] worker[j].pc = "tool_registry_execute"  -> WorkerExecuted(j)
         [] worker[j].pc = "save_conversation"      -> WorkerSaved(j)
         [] OTHER                                   -> FALSE
    /\ UNCHANGED outsideWorker

(***************************************************************************)
(* Concurrent requests: each process makes one step call, on any session,  *)
(* while the job worker runs the submitted jobs.                           *)
(***************************************************************************)
\* the processes are interchangeable: the one with the lower number is the
\* first to call
ConcStart(p, s, u) ==
    /\ pc[p] = "idle"
    /\ \A q \in Procs : q < p => pc[q] # "idle"
    /\ StartStep(p, s, u)

\* what the model answers in the concurrent runs: a final answer, a request
\* for an async tool, a request for an inline tool
ConcLLMTexts ==
    { t \in LLMTexts : HasFinalMarker(t) \/ IsRegisteredSyncRequest(t) \/ IsAsyncRequest(t) }

ConcStep(p) ==
    /\ StepNext(p)
    /\ Len(jobs') <= MaxConcJobs
    /\ \A i \in DOMAIN replies'[p] : replies'[p][i] \in ConcLLMTexts

ConcNext ==
    \/ \E p \in Procs, s \in SessionIds, u \in UserInputs : ConcStart(p, s, u)
    \/ \E p \in Procs : ConcStep(p)
    \/ \E j \in DOMAIN jobs : WorkerStart(j)
    \/ \E j \in DOMAIN jobs : WorkerResumes(j)

\* the concurrent runs are taken against a Redis that answers every operation:
\* the failures the model allows are used up
ConcInit ==
    /\ InitSteps
    /\ faults = MaxFaults
    /\ store = EmptyStore
    /\ ttl = NoTtl
    /\ tools = DiscoveredTools
    /\ modules = << >>
    /\ probe = NoProbe

ConcSpec == ConcInit /\ [][ConcNext]_vars

(***************************************************************************)
(* One caller whose model answers hold up to two invocations, on one line  *)
(* or on two.                                                              *)
(***************************************************************************)
MaxInvSteps == 1
MaxInvJobs == 2

MaceInvocation ==
    << ActionMarker, " ", "optimize_structure_with_mace", "(", "source_filename=\"a.xyz\"", ")" >>
StatusInvocation ==
    << ActionMarker, " ", "check_task_status", "(", "task_id=\"1\"", ")" >>

InvocationTexts ==
    { << "Thought", FinalMarker, " ", "X", "\n" >>,
      MaceInvocation,
      StatusInvocation,
      MaceInvocation \o << " " >> \o StatusInvocation,
      MaceInvocation \o << "\n" >> \o StatusInvocation,
      StatusInvocation \o << " " >> \o MaceInvocation,
      StatusInvocation \o << "\n" >> \o MaceInvocation,
      MaceInvocation \o << "\n", FinalMarker, " ", "X" >>,
      << "Thought", FinalMarker, " ", "X", "\n" >> \o StatusInvocation }

InvocationUpstream == [ kind : { "ok" }, text : InvocationTexts ]

InvStart(s, u) ==
    /\ steps < MaxInvSteps
    /\ NextStepOfSession(1, s, u)

InvLLMResponds ==
    \E up \in InvocationUpstream :
        /\ RequestsAsync(up) => Len(jobs) < MaxInvJobs
        /\ LLMRespondsWith(1, up)

InvocationNext ==
    \/ \E s \in SessionIds, u \in UserInputs : InvStart(s, u)
    \/ GetConversation(1)
    \/ SaveUser(1)
    \/ InvLLMResponds
    \/ ExecuteSyncTool(1)
    \/ SaveFinal(1)
    \/ SaveObservation(1)

InvocationSpec == Init /\ [][InvocationNext]_vars

(***************************************************************************)
(* One step and the job worker while time passes: Redis counts down the    *)
(* lifetime of every key and removes a key whose lifetime has run out.     *)
(***************************************************************************)
\* the stretches of time that pass between two operations
Durations == { _session_ttl \div 2, _session_ttl }

\* celery_app.conf.result_expires: the seconds the result backend keeps what
\* it recorded of a finished task
result_expires == 3600

\* the result backend still holds a finished job's record
ResultKept(j) == JobCompleted(j) /\ ~ jobs[j].expired

\* d seconds pass: session keys run down, and the record of a job that had
\* finished is dropped from the result backend once result_expires is over
TimePasses(d) ==
    /\ store # EmptyStore \/ \E j \in DOMAIN jobs : ResultKept(j)
    /\ LET alive == { k \in DOMAIN store : ttl[k] > d }
       IN  /\ store' = [ k \in alive |-> store[k] ]
           /\ ttl' = [ k \in alive |-> ttl[k] - d ]
    /\ jobs' = [ j \in DOMAIN jobs |->
                   IF ResultKept(j) /\ d >= result_expires
                   THEN [ jobs[j] EXCEPT !.expired = TRUE ]
                   ELSE jobs[j] ]
    /\ UNCHANGED << faults, worker >>
    /\ UNCHANGED outsideWorker

TtlNext ==
    \/ \E s \in SessionIds, u \in UserInputs : ConcStart(1, s, u)
    \/ ConcStep(1)
    \/ \E j \in DOMAIN jobs : WorkerStart(j)
    \/ \E j \in DOMAIN jobs : WorkerResumes(j)
    \/ \E d \in Durations : TimePasses(d)

TtlSpec == Init /\ [][TtlNext]_vars

(***************************************************************************)
(* One caller and the job worker over the registries the discovery may     *)
(* leave: the full one, and the one without the tools of mace_opt_tool,    *)
(* whose constructors raise when MACEOPT_API_BASE_URL is not set.          *)
(***************************************************************************)
\* the tool classes of app/tools/mace_opt_tool.py, by name
MaceModuleTools == { "optimize_structure_with_mace", "download_optimized_structure" }

\* tool_registry.tools after discovery
Registries ==
    { DiscoveredTools, [ n \in RegisteredTools \ MaceModuleTools |-> n ] }

DispatchInit ==
    /\ InitSteps
    /\ faults = MaxFaults
    /\ store = EmptyStore
    /\ ttl = NoTtl
    /\ tools \in Registries
    /\ modules = << >>
    /\ probe = NoProbe

DispatchNext ==
    \/ InvocationNext /\ Len(jobs') <= MaxConcJobs
    \/ \E j \in DOMAIN jobs : WorkerStart(j)
    \/ \E j \in DOMAIN jobs : WorkerResumes(j)

DispatchSpec == DispatchInit /\ [][DispatchNext]_vars

(***************************************************************************)
(* One caller on a session whose stored workspace may hold a structure     *)
(* file, the model asking for its conversion by the inline tool.           *)
(***************************************************************************)
ConvertInvocation ==
    << ActionMarker, " ", "convert_structure_file", "(", "source_filename=\"a.xyz\"", ")" >>

WorkspaceTexts ==
    { << "Thought", FinalMarker, " ", "X", "\n" >>, ConvertInvocation, MaceInvocation }

WorkspaceUpstream == [ kind : { "ok" }, text : WorkspaceTexts ]

\* a session stored with a structure file in its workspace
SessionWithFile ==
    [ session_id |-> "s1",
      messages   |-> << SystemMessage, Message("user", << "q1" >>) >>,
      workspace  |-> { "a.xyz" } ]

WorkspaceInit ==
    /\ InitSteps
    /\ faults = 0
    /\ store \in { EmptyStore, "s1" :> ModelDumpJson(SessionWithFile) }
    /\ ttl = [ k \in DOMAIN store |-> _session_ttl ]
    /\ tools = DiscoveredTools
    /\ modules = << >>
    /\ probe = NoProbe

WorkspaceNext ==
    \/ \E s \in SessionIds, u \in UserInputs : NextStepOfSession(1, s, u)
    \/ GetConversation(1)
    \/ SaveUser(1)
    \/ \E up \in WorkspaceUpstream :
          (RequestsAsync(up) => Len(jobs) < MaxConcJobs) /\ LLMRespondsWith(1, up)
    \/ ExecuteSyncTool(1)
    \/ SaveFinal(1)
    \/ SaveObservation(1)

WorkspaceSpec == WorkspaceInit /\ [][WorkspaceNext]_vars

(***************************************************************************)
(* Registry construction (ToolRegistry.__init__, _discover_tools) over the *)
(* tools packages it may be given.                                         *)
(***************************************************************************)
SeqsUpTo(S, n) == UNION { [ 1..k -> S ] : k \in 0..n }

\* BaseTool subclasses: the class, the name its instances carry, whether its
\* constructor raises
ToolClasses ==
    { [ cls |-> "SearchWebTool",   name |-> "tavily_search",     raises |-> FALSE ],
      [ cls |-> "OtherSearchTool", name |-> "tavily_search",     raises |-> FALSE ],
      [ cls |-> "TaskStatusTool",  name |-> "check_task_status", raises |-> FALSE ],
      [ cls |-> "BrokenTool",      name |-> "check_task_status", raises |-> TRUE ] }

\* inspect.getmembers(module): the tool classes in the module's namespace, each once
Members ==
    { m \in SeqsUpTo(ToolClasses, MaxMembers) :
        \A i, k \in DOMAIN m : i # k => m[i] # m[k] }

\* a module of the package: whether its import succeeds, and its members
Modules ==
    [ imports : { TRUE }, members : Members ]
        \cup { [ imports |-> FALSE, members |-> << >> ] }

Packages == SeqsUpTo(Modules, MaxModules)

DiscoverInit ==
    /\ InitSteps
    /\ faults = 0
    /\ store = EmptyStore
    /\ ttl = NoTtl
    /\ probe = NoProbe
    /\ tools = NoTools
    /\ modules \in Packages

outsideRegistry ==
    << store, ttl, jobs, steps, faults, pc, session_id, user_input, conversation, turn,
       action, result, llmCalls, replies, toolCalls, appended, loadedLen, loadReachable,
       submitted, worker, probe >>

\* line 43: self.tools[instance.name] = instance
register(registry, class) == (class.name :> class.cls) @@ registry

\* lines 39-44: the next member of the module being scanned is instantiated
\* and registered
RegisterMember ==
    /\ modules # << >>
    /\ Head(modules).imports
    /\ Head(modules).members # << >>
    /\ ~ Head(Head(modules).members).raises
    /\ tools' = register(tools, Head(Head(modules).members))
    /\ modules' = [ modules EXCEPT ![1].members = Tail(@) ]
    /\ UNCHANGED outsideRegistry

\* lines 45-46: the import or a constructor raised; the rest of the module is
\* skipped and the scan goes on with the next module
ModuleFailed ==
    /\ modules # << >>
    /\ \/ ~ Head(modules).imports
       \/ /\ Head(modules).members # << >>
          /\ Head(Head(modules).members).raises
    /\ modules' = Tail(modules)
    /\ UNCHANGED tools
    /\ UNCHANGED outsideRegistry

\* line 36: the module has no member left; the next module
ModuleScanned ==
    /\ modules # << >>
    /\ Head(modules).imports
    /\ Head(modules).members = << >>
    /\ modules' = Tail(modules)
    /\ UNCHANGED tools
    /\ UNCHANGED outsideRegistry

DiscoverNext ==
    \/ RegisterMember
    \/ ModuleFailed
    \/ ModuleScanned

DiscoverSpec == DiscoverInit /\ [][DiscoverNext]_vars

(***************************************************************************)
(* The session manager under a direct client: save and load calls on a     *)
(* Redis that already holds values.                                        *)
(***************************************************************************)
\* conversations a client saves
SampleConversations ==
    { NewConversation,
      [ session_id |-> "s1",
        messages   |-> << SystemMessage, Message("user", << "q1" >>) >>,
        workspace  |-> {} ],
      [ session_id |-> "",
        messages   |-> << Message("tool", << "result of", "convert_structure_file" >>) >>,
        workspace  |-> { "a.cif" } ] }

\* what a key may hold before the first call
StoredValues == { ModelDumpJson(c) : c \in SampleConversations } \cup { ForeignValue }

Stores ==
    UNION { [ K -> StoredValues ] : K \in SUBSET StoreKeys }

StoreInit ==
    /\ InitSteps
    /\ faults = 0
    /\ tools = DiscoveredTools
    /\ modules = << >>
    /\ probe = NoProbe
    /\ store \in Stores
    /\ ttl = [ k \in DOMAIN store |-> _session_ttl ]

outsideStore ==
    << jobs, steps, pc, session_id, user_input, conversation, turn, action, result,
       llmCalls, replies, toolCalls, appended, loadedLen, loadReachable, submitted, worker,
       tools, modules >>

\* await session_manager.save_conversation(k, c)
SessionManagerSave(k, c) ==
    /\ probe.calls < MaxCalls
    /\ \E reachable \in RedisOutcomes :
         /\ save_conversation(k, c, reachable)
         /\ probe' = [ probe EXCEPT !.calls = @ + 1,
                                    !.op = "save",
                                    !.key = k,
                                    !.reachable = reachable,
                                    !.result = NewConversation,
                                    !.saved[k] = [ called |-> TRUE, conv |-> c,
                                                   reachable |-> reachable ] ]
    /\ UNCHANGED outsideStore

\* await session_manager.get_conversation(k)
SessionManagerLoad(k) ==
    /\ probe.calls < MaxCalls
    /\ \E reachable \in RedisOutcomes :
         /\ probe' = [ probe EXCEPT !.calls = @ + 1,
                                    !.op = "load",
                                    !.key = k,
                                    !.reachable = reachable,
                                    !.result = get_conversation(k, reachable) ]
         /\ CountFault(reachable)
    /\ UNCHANGED << store, ttl >>
    /\ UNCHANGED outsideStore

StoreNext ==
    \/ \E k \in StoreKeys, c \in SampleConversations : SessionManagerSave(k, c)
    \/ \E k \in StoreKeys : SessionManagerLoad(k)

StoreSpec == StoreInit /\ [][StoreNext]_vars

(***************************************************************************)
(* The check-status tool (app/tools/task_status_tool.py) called on the     *)
(* result backend, whatever a task's state in it, while the worker runs    *)
(* the job and time passes.                                                *)
(***************************************************************************)
\* the task states of Celery (celery.states)
CeleryStates == { "PENDING", "STARTED", "RETRY", "SUCCESS", "FAILURE", "REVOKED" }

\* celery.states.READY_STATES: what AsyncResult.ready() tests
READY_STATES == { "SUCCESS", "FAILURE", "REVOKED" }

\* the ids a caller may ask about: the submitted job's and one no task has
TaskIds == { 1, 2 }

\* AsyncResult(task_id).state: the state the backend holds for the id; an id
\* the backend holds nothing for reads as PENDING
AsyncResultState(task_id) ==
    IF task_id \in DOMAIN jobs /\ ~ jobs[task_id].expired
    THEN jobs[task_id].state
    ELSE "PENDING"

\* variant without the handlers of lines 50-53 and 59-61: what get() or the
\* backend raises leaves the tool
CheckTaskStatusExecute_Propagating(conv, task_id, reachable) ==
    LET status == AsyncResultState(task_id)
        id     == ToString(task_id)
    IN  IF ~ reachable
        THEN Raised("ConnectionError", << "Error connecting to Redis" >>)
        ELSE IF status \in READY_STATES
        THEN IF status = "SUCCESS"
             THEN Returned(<< "Task", id, "has status SUCCESS. The result is:" >>,
                           conv.workspace)
             ELSE Raised("Exception", << "the error of task", id >>)
        ELSE Returned(<< "Task", id, "is not yet complete. Its current status is", status >>,
                      conv.workspace)

\* CheckTaskStatusTool.execute(conversation, task_id), lines 35-61; an
\* exception of the backend is caught by the outer handler
CheckTaskStatusExecute(conv, task_id, reachable) ==
    LET status == AsyncResultState(task_id)
        id     == ToString(task_id)
    IN  IF ~ reachable
        THEN Returned(<< "An error occurred while checking task status:" >>,
                      conv.workspace)
        ELSE IF status \in READY_STATES
        THEN IF status = "SUCCESS"
             THEN Returned(<< "Task", id, "has status SUCCESS. The result is:" >>,
                           conv.workspace)
             ELSE Returned(<< "Task", id, "has status FAILURE. The error was:" >>,
                           conv.workspace)
        ELSE Returned(<< "Task", id, "is not yet complete. Its current status is", status >>,
                      conv.workspace)

\* the job a backend holds a record of, in any state
StatusJobs ==
    { << [ id         |-> 1,
           session_id |-> "s1",
           tool_name  |-> "optimize_structure_with_mace",
           tool_args  |-> << "source_filename=\"a.xyz\"" >>,
           state      |-> st,
           expired    |-> FALSE ] >> : st \in CeleryStates }

StatusInit ==
    /\ InitCallers
    /\ jobs \in StatusJobs
    /\ faults = 0
    /\ store \in Stores
    /\ ttl = [ k \in DOMAIN store |-> _session_ttl ]
    /\ tools = DiscoveredTools
    /\ modules = << >>
    /\ probe = NoProbe

\* await CheckTaskStatusTool().execute(conversation=c, task_id=id)
CheckStatus(c, task_id) ==
    /\ probe.calls < MaxCalls
    /\ \E reachable \in RedisOutcomes :
         LET out == CheckTaskStatusExecute(c, task_id, reachable)
         IN  /\ probe' = [ probe EXCEPT !.calls = @ + 1,
                                        !.op = "check_task_status",
                                        !.key = ToString(task_id),
                                        !.reachable = reachable,
                                        !.arg = c,
                                        !.result = [ c EXCEPT !.workspace = out.workspace ],
                                        !.outcome = out.kind,
                                        !.text = out.value,
                                        !.status = AsyncResultState(task_id) ]
             /\ CountFault(reachable)
    /\ UNCHANGED << store, ttl >>
    /\ UNCHANGED outsideStore

StatusNext ==
    \/ \E c \in SampleConversations, id \in TaskIds : CheckStatus(c, id)
    \/ \E j \in DOMAIN jobs : WorkerStart(j)
    \/ \E j \in DOMAIN jobs : WorkerResumes(j)
    \/ \E d \in Durations : TimePasses(d)

StatusSpec == StatusInit /\ [][StatusNext]_vars

(***************************************************************************)
(* Vocabulary of the properties.                                           *)
(***************************************************************************)
Last(q) == q[Len(q)]

Roles(msgs) == [ i \in DOMAIN msgs |-> msgs[i].role ]

IsObservation(m) == m.role \in { "user", "tool" } /\ m.content # << >> /\ m.content[1] = "Observation:"

\* the part of the stored log of the step's session that lies behind what the
\* step's load returned
StoredSinceLoad(p) ==
    LET log == StoredMessages(session_id[p])
    IN  SubSeq(log, loadedLen[p] + 1, Len(log))

(***************************************************************************)
(* C1: a call of step ends by returning one assistant Message, whatever    *)
(* the session, the input, the LLM replies, the tool outcomes and the      *)
(* store outcomes; it never ends by raising to its caller.                 *)
(* The code raises out of run_conversation_step at every inline tool call. *)
(***************************************************************************)
C1_StepReturnsAssistantMessage ==
    \A p \in Procs :
        Ended(p) => /\ pc[p] = "returned"
                    /\ result[p].kind = "message"
                    /\ result[p].role = "assistant"

(***************************************************************************)
(* C2 (as stated): under steps run one after another, every transition     *)
(* leaves the log stored for a session a prefix of the log stored after it.*)
(***************************************************************************)
C2_StoredLogOnlyGrows ==
    [][ \A s \in SessionIds : IsPrefix(StoredMessages(s), StoredMessages(s)') ]_vars

(***************************************************************************)
(* C2 (amended): the stored log of a session only grows under every step   *)
(* whose load was answered by the store; a step whose load failed starts   *)
(* from an empty conversation and may replace the stored log.              *)
(***************************************************************************)
C2_StoredLogGrowsWhenLoadAnswered ==
    [][ \A s \in SessionIds :
          (\A p \in Procs : (pc[p] # "idle" /\ session_id[p] = s) => loadReachable[p])
              => IsPrefix(StoredMessages(s), StoredMessages(s)') ]_vars

\* a second step on a session has extended the log that the first one stored
C2_Witness ==
    /\ steps = 2
    /\ pc[1] = "returned"
    /\ loadReachable[1]
    /\ loadedLen[1] > 2
    /\ Len(StoredMessages(session_id[1])) > loadedLen[1]

(***************************************************************************)
(* C3: with the store answering every operation, at every point where a    *)
(* step waits on the LLM Gateway or on a tool, and at return, the stored   *)
(* log equals the step's in-memory log.                                    *)
(* The code appends the assistant message (line 147) and saves it only     *)
(* with the final answer or with the observation.                          *)
(***************************************************************************)
C3_SavedAtEveryWaitAndReturn ==
    \A p \in Procs :
        (faults = 0 /\ pc[p] \in { "call_llm", "tool_registry_execute", "returned" })
            => StoredMessages(session_id[p]) = conversation[p].messages

(***************************************************************************)
(* C4: when a step has returned, with the store answering every operation  *)
(* and no other writer, a load of the session yields every message the     *)
(* step appended, in order.                                                *)
(***************************************************************************)
C4_LoadAfterReturnSeesAppended ==
    \A p \in Procs :
        (faults = 0 /\ pc[p] = "returned")
            => LET after == get_conversation(session_id[p], TRUE).messages
               IN  SubSeq(after, loadedLen[p] + 1, Len(after)) = appended[p]

(***************************************************************************)
(* C5 (as stated): a step all of whose model responses hold neither the    *)
(* final-answer marker nor a tool invocation returns the timeout Message.  *)
(***************************************************************************)
AllRepliesStalled(p) ==
    /\ replies[p] # << >>
    /\ \A i \in DOMAIN replies[p] : IsStalledText(replies[p][i])

C5_StalledStepReturnsTimeout ==
    \A p \in Procs :
        (Ended(p) /\ AllRepliesStalled(p))
            => /\ pc[p] = "returned"
               /\ result[p].content = TimeoutText
               /\ llmCalls[p] <= MAX_TURNS

(***************************************************************************)
(* C5 (amended): such a step terminates on the first such response, after  *)
(* one LLM Gateway call (within the turn budget), and the Message it       *)
(* returns is the fixed clarification Message, not the timeout Message.    *)
(***************************************************************************)
C5_StalledStepReturnsClarification ==
    \A p \in Procs :
        AllRepliesStalled(p)
            => /\ pc[p] = "returned"
               /\ result[p] = ReturnMessage(Message("assistant", StuckText))
               /\ llmCalls[p] = 1
               /\ llmCalls[p] <= MAX_TURNS

C5_Witness ==
    /\ pc[1] = "returned"
    /\ replies[1] = << << "Thought" >> >>
    /\ result[1].content = StuckText

(***************************************************************************)
(* C6: a step makes at most MAX_TURNS LLM Gateway calls, one in each loop  *)
(* iteration, and every step that was started ends, whatever the model and *)
(* the tools answer.                                                       *)
(***************************************************************************)
OneCallPerIteration(p) ==
    /\ llmCalls[p] <= MAX_TURNS
    /\ pc[p] = "call_llm" => (turn[p] < MAX_TURNS /\ llmCalls[p] = turn[p])
    /\ pc[p] \in { "save_final", "tool_registry_execute", "save_observation" }
           => llmCalls[p] = turn[p] + 1
    /\ Ended(p) => llmCalls[p] \in { turn[p], turn[p] + 1 }

C6_TurnBudgetBoundsTheStep ==
    /\ [](\A p \in Procs : OneCallPerIteration(p))
    /\ \A p \in Procs : (pc[p] = "get_conversation") ~> Ended(p)

\* the model asked for a tool in every turn and the budget ended the step
C6_Witness ==
    /\ pc[1] = "returned"
    /\ llmCalls[1] = MAX_TURNS
    /\ \A i \in DOMAIN replies[1] : IsToolRequest(replies[1][i])
    /\ result[1].content = TimeoutText

(***************************************************************************)
(* C7 (as stated): when the first model response of a step requests a tool *)
(* of the async set, the step returns after that one LLM Gateway call, the *)
(* returned Message contains the job id, and no observation is appended.   *)
(***************************************************************************)
FirstReplyAsync(p) == replies[p] # << >> /\ IsAsyncRequest(replies[p][1])

C7_AsyncDispatchEndsTheStep ==
    \A p \in Procs :
        (Ended(p) /\ FirstReplyAsync(p))
            => /\ pc[p] = "returned"
               /\ llmCalls[p] = 1
               /\ submitted[p] # << >>
               /\ ToString(submitted[p][1]) \in Range(result[p].content)
               /\ \A i \in DOMAIN appended[p] : ~ IsObservation(appended[p][i])

(***************************************************************************)
(* C7 (amended): when the first model response of a step requests a tool   *)
(* of the async set, the step submits the job (session id, tool name) and  *)
(* appends, right after the assistant message, an Observation message      *)
(* (role user) that contains the job id verbatim; the step does not return *)
(* on that turn: it saves the log with the observation and makes a further *)
(* LLM Gateway call.                                                       *)
(***************************************************************************)
\* index in appended[p] of the first assistant message
FirstAssistant(p) ==
    Min({ i \in DOMAIN appended[p] : appended[p][i].role = "assistant" })

C7_AsyncDispatchIsObservedInLoop ==
    \A p \in Procs :
        FirstReplyAsync(p)
            => LET k == FirstAssistant(p)
               IN  /\ submitted[p] # << >>
                   /\ jobs[submitted[p][1]].session_id = session_id[p]
                   /\ jobs[submitted[p][1]].tool_name = _parse_action(replies[p][1]).tool_name
                   /\ Len(appended[p]) > k
                   /\ appended[p][k + 1].role = "user"
                   /\ IsObservation(appended[p][k + 1])
                   /\ ToString(submitted[p][1]) \in Range(appended[p][k + 1].content)
                   /\ (pc[p] = "save_observation" /\ turn[p] = 0) => llmCalls[p] = 1
                   /\ (faults = 0 /\ ~ (pc[p] = "save_observation" /\ turn[p] = 0))
                          => IsPrefix(SubSeq(appended[p], 1, k + 1), StoredSinceLoad(p))
                   /\ Ended(p) => llmCalls[p] >= 2

\* a step whose first response asked for an async tool has ended, two LLM calls made
C7_Witness ==
    /\ FirstReplyAsync(1)
    /\ pc[1] = "returned"
    /\ llmCalls[1] = 2
    /\ Len(submitted[1]) = 1

(***************************************************************************)
(* C8: on a fresh session, with the store answering every operation, a     *)
(* step whose first model response requests a registered sync tool goes on *)
(* to a second LLM Gateway call; when that one answers `Final Answer: X`   *)
(* the step returns a Message with content X and the stored log has the    *)
(* roles system, user, assistant, tool, assistant.                         *)
(* The code raises TypeError at the inline call of the registry, so the    *)
(* step ends after the first response with system, user in the store.      *)
(***************************************************************************)
C8_SyncToolThenFinalAnswer ==
    \A p \in Procs :
        ( /\ Ended(p)
          /\ faults = 0
          /\ loadedLen[p] = 0
          /\ replies[p] # << >>
          /\ IsRegisteredSyncRequest(replies[p][1]) )
            => /\ Len(replies[p]) >= 2
               /\ HasFinalMarker(replies[p][2])
                     => /\ pc[p] = "returned"
                        /\ result[p].content = FinalAnswer(replies[p][2])
                        /\ Roles(StoredMessages(session_id[p]))
                              = << "system", "user", "assistant", "tool", "assistant" >>

(***************************************************************************)
(* C9: a model response that requests a tool name that is neither          *)
(* registered nor in the async set does not make the step raise: once the  *)
(* inline call is over, the last message of the log is an Observation      *)
(* reporting the tool as not found, and the step is in its loop or has     *)
(* returned.                                                               *)
(***************************************************************************)
C9_UnknownToolIsObserved ==
    \A p \in Procs :
        ( /\ replies[p] # << >>
          /\ IsUnregisteredRequest(Last(replies[p]))
          /\ pc[p] # "tool_registry_execute" )
            => /\ pc[p] # "raised"
               /\ IsObservation(Last(conversation[p].messages))
               /\ "not found." \in Range(Last(conversation[p].messages).content)

(***************************************************************************)
(* C10: the registry's dispatch never propagates a fault when it forwards  *)
(* to a registered tool: an inline call of a registered tool leaves the    *)
(* orchestrator with a text, never with an exception, whether it is made   *)
(* with the orchestrator's keyword arguments or with the declared ones and *)
(* whatever the tool does.                                                 *)
(***************************************************************************)
C10_RegistryNeverPropagates ==
    \A p \in Procs :
        (pc[p] = "tool_registry_execute" /\ action[p].tool_name \in RegisteredTools)
            => \A kw \in { OrchestratorCallKeywords, RegistryExecuteParams },
                  beh \in ToolBehaviours :
                    RegistryExecute(kw, action[p].tool_name, conversation[p],
                                    action[p].tool_args, beh).kind = "return"

(***************************************************************************)
(* C11: a dispatch made as the orchestrator and the job worker make it     *)
(* (tool name, conversation, argument mapping) for a registered tool       *)
(* reaches the tool's execute with the conversation and the arguments and  *)
(* yields the tool's text, the tool accepting the conversation.            *)
(* In the code both calls pass `conversation=` to ToolRegistry.execute,    *)
(* which declares no such parameter, and the registry forwards **kwargs    *)
(* without the conversation.                                               *)
(***************************************************************************)
C11_DispatchReachesTheTool ==
    /\ \A p \in Procs :
         (pc[p] = "tool_registry_execute" /\ action[p].tool_name \in RegisteredTools)
            => LET direct == ToolExecute(action[p].tool_name, TRUE, conversation[p],
                                         action[p].tool_args, "ok")
               IN  /\ direct.kind = "return"
                   /\ RegistryExecute(OrchestratorCallKeywords, action[p].tool_name,
                                      conversation[p], action[p].tool_args, "ok") = direct
    /\ \A j \in DOMAIN worker :
         (worker[j].pc = "tool_registry_execute" /\ jobs[j].tool_name \in RegisteredTools)
            => LET direct == ToolExecute(jobs[j].tool_name, TRUE, worker[j].conversation,
                                         jobs[j].tool_args, "ok")
               IN  /\ direct.kind = "return"
                   /\ RegistryExecute(WorkerCallKeywords, jobs[j].tool_name,
                                      worker[j].conversation, jobs[j].tool_args, "ok") = direct

(***************************************************************************)
(* C12: registering a tool whose name is already in the registry leaves    *)
(* the registered tool in place: no step of the registry's construction    *)
(* replaces a capability by another one of the same name.                  *)
(* _discover_tools assigns self.tools[instance.name] without looking.      *)
(***************************************************************************)
C12_RegisteredToolStaysInPlace ==
    [][ \A n \in DOMAIN tools : n \in DOMAIN tools' /\ tools'[n] = tools[n] ]_vars

(***************************************************************************)
(* C13: a load never fails; when the key is absent, when the store is      *)
(* unreachable and when the stored value cannot be decoded, it returns a   *)
(* fresh Conversation: no session id, no messages, an empty workspace.     *)
(***************************************************************************)
C13_LoadFallsBackToFreshConversation ==
    ( /\ probe.op = "load"
      /\ \/ probe.key \notin DOMAIN store
         \/ ~ probe.reachable
         \/ ~ IsConversationJson(store[probe.key]) )
        => /\ probe.result.session_id = NoneId
           /\ probe.result.messages = << >>
           /\ probe.result.workspace = {}

\* a load has met a value that is not a Conversation document, Redis answering
C13_Witness ==
    /\ probe.op = "load"
    /\ probe.reachable
    /\ probe.key \in DOMAIN store
    /\ ~ IsConversationJson(store[probe.key])
    /\ probe.result = NewConversation

(***************************************************************************)
(* C14: sessions are isolated.  Under any interleaving of two steps and    *)
(* the job worker, a transition of a step or of a job for one session      *)
(* leaves the value stored under every other session id as it is; and a    *)
(* load of an id under which nothing was ever saved returns an empty       *)
(* Conversation, whatever the other sessions hold.                         *)
(***************************************************************************)
\* the value under key k is the same before and after the transition
StoredValueKept(k) ==
    /\ (k \in DOMAIN store') = (k \in DOMAIN store)
    /\ k \in DOMAIN store => store'[k] = store[k]

\* no step and no job of session k has got to the end of a save
NeverSaved(k) ==
    /\ \A p \in Procs :
         \/ pc[p] \in { "idle", "get_conversation", "save_user" }
         \/ session_id[p] # k
    /\ \A j \in DOMAIN worker :
         jobs[j].session_id = k => worker[j].pc # "returned"

C14_SessionsAreIsolated ==
    /\ [][ /\ \A p \in Procs, k \in SessionIds :
                (pc'[p] # pc[p] /\ k # session_id'[p]) => StoredValueKept(k)
           /\ \A j \in DOMAIN worker', k \in SessionIds :
                ((j \notin DOMAIN worker \/ worker'[j] # worker[j]) /\ k # jobs[j].session_id)
                    => StoredValueKept(k) ]_vars
    /\ [](\A k \in SessionIds :
            NeverSaved(k) => get_conversation(k, TRUE) = NewConversation)

\* one session has a stored conversation and a failed job behind it while a
\* step of another session, never saved, has loaded an empty conversation
C14_Witness ==
    /\ session_id[1] # session_id[2]
    /\ pc[1] = "returned"
    /\ session_id[1] \in DOMAIN store
    /\ \E j \in DOMAIN worker : jobs[j].session_id = session_id[1] /\ worker[j].pc = "raised"
    /\ pc[2] = "save_user"
    /\ NeverSaved(session_id[2])
    /\ loadedLen[2] = 0

(***************************************************************************)
(* C15 (as stated): a load of a key returns the Conversation of the last   *)
(* save call on that key, equal in session id, messages and workspace,     *)
(* whatever the key held before.                                           *)
(***************************************************************************)
C15_SaveThenLoadYieldsSaved ==
    (probe.op = "load" /\ probe.saved[probe.key].called)
        => /\ probe.result.session_id = probe.saved[probe.key].conv.session_id
           /\ probe.result.messages = probe.saved[probe.key].conv.messages
           /\ probe.result.workspace = probe.saved[probe.key].conv.workspace

(***************************************************************************)
(* C15 (amended): when Redis answers both the save and the load, the load  *)
(* returns the Conversation of the last save call on that key, equal in    *)
(* session id, messages and workspace, whatever the key held before: the   *)
(* save replaces the whole value.  A save that Redis does not answer       *)
(* returns normally and leaves the old value, and a load that Redis does   *)
(* not answer returns a fresh Conversation.                                *)
(***************************************************************************)
C15_AnsweredSaveThenLoadYieldsSaved ==
    /\ ( /\ probe.op = "load"
         /\ probe.reachable
         /\ probe.saved[probe.key].called
         /\ probe.saved[probe.key].reachable )
          => /\ probe.result.session_id = probe.saved[probe.key].conv.session_id
             /\ probe.result.messages = probe.saved[probe.key].conv.messages
             /\ probe.result.workspace = probe.saved[probe.key].conv.workspace
    /\ (probe.op = "load" /\ ~ probe.reachable) => probe.result = NewConversation

\* a conversation with a workspace entry has come back from a key that held
\* something else before
C15_Witness ==
    /\ probe.op = "load"
    /\ probe.reachable
    /\ probe.saved[probe.key].called
    /\ probe.saved[probe.key].reachable
    /\ probe.result.workspace = { "a.cif" }
    /\ probe.result.session_id = ""
    /\ probe.calls = 2

(***************************************************************************)
(* C16 (as stated): when a model response contains the final-answer marker *)
(* the step makes no further LLM or tool call, returns a Message whose     *)
(* content is the text following the marker, and that same Message is the  *)
(* last entry of the log and of the persisted log.                         *)
(***************************************************************************)
\* the last model response of the step holds the final-answer marker
AnsweredFinal(p) == replies[p] # << >> /\ HasFinalMarker(Last(replies[p]))

\* text is what follows an occurrence of the marker in response, stripped
FollowsMarker(text, response) ==
    \E i \in DOMAIN response :
        /\ response[i] = FinalMarker
        /\ text = Strip(SubSeq(response, i + 1, Len(response)))

C16_ReturnedFinalMessageIsTheLoggedOne ==
    \A p \in Procs :
        AnsweredFinal(p)
            => /\ pc[p] \in { "save_final", "returned" }
               /\ pc[p] = "returned"
                     => /\ FollowsMarker(result[p].content, Last(replies[p]))
                        /\ Last(conversation[p].messages)
                               = Message(result[p].role, result[p].content)
                        /\ faults = 0
                               => Last(StoredMessages(session_id[p]))
                                      = Message(result[p].role, result[p].content)

(***************************************************************************)
(* C16 (amended): when a model response contains the final-answer marker   *)
(* the step makes no further LLM or tool call and returns an assistant     *)
(* Message whose content is the text following the marker, stripped.  The  *)
(* Message appended to the log, and persisted as its last entry when the   *)
(* store answers, is a different one: the assistant Message holding the    *)
(* whole model response, marker included.                                  *)
(***************************************************************************)
C16_FinalReturnsExtractLogsWholeResponse ==
    \A p \in Procs :
        AnsweredFinal(p)
            => /\ pc[p] \in { "save_final", "returned" }
               /\ action[p] = NoAction
               /\ \A i \in 1..(Len(replies[p]) - 1) : ~ HasFinalMarker(replies[p][i])
               /\ Last(conversation[p].messages) = Message("assistant", Last(replies[p]))
               /\ pc[p] = "returned"
                     => /\ result[p].kind = "message"
                        /\ result[p].role = "assistant"
                        /\ FollowsMarker(result[p].content, Last(replies[p]))
                        /\ FinalMarker \notin Range(result[p].content)
                        /\ result[p].content # Last(conversation[p].messages).content
                        /\ faults = 0
                               => StoredMessages(session_id[p]) = conversation[p].messages

\* `Thought Final Answer: X` has been answered with X and stored whole
C16_Witness ==
    /\ pc[1] = "returned"
    /\ AnsweredFinal(1)
    /\ result[1].content = << "X" >>
    /\ faults = 0
    /\ Last(StoredMessages(session_id[1])).content
           = << "Thought", FinalMarker, " ", "X", "\n" >>

(***************************************************************************)
(* C17: one STALLED policy, applied in every turn and session: a model     *)
(* response with neither the final-answer marker nor a recognizable        *)
(* invocation ends the step at once with the clarification Message; no     *)
(* forcing continuation is appended and no LLM call follows it.            *)
(***************************************************************************)
C17_StalledAlwaysEndsTheStep ==
    \A p \in Procs :
        \A i \in DOMAIN replies[p] :
            IsStalledText(replies[p][i])
                => /\ i = Len(replies[p])
                   /\ llmCalls[p] = i
                   /\ pc[p] = "returned"
                   /\ result[p] = ReturnMessage(Message("assistant", StuckText))
                   /\ Last(conversation[p].messages) = Message("assistant", replies[p][i])
                   /\ Last(appended[p]) = Message("assistant", replies[p][i])

\* a step has stalled in its third turn, on the session with the empty id
C17_Witness ==
    /\ pc[1] = "returned"
    /\ session_id[1] = ""
    /\ Len(replies[1]) = 3
    /\ turn[1] = 2
    /\ IsStalledText(replies[1][3])
    /\ result[1].content = StuckText

(***************************************************************************)
(* C18: malformed action text is classified STALLED and not retried: a     *)
(* response whose Action is unterminated, or whose argument text is not a  *)
(* key=value list, leads to no tool execution and no job submission in     *)
(* that turn, and the step ends with the clarification Message.            *)
(* _parse_action accepts any argument text between the parentheses and     *)
(* keeps the key=value pairs it finds in it, none included.                *)
(***************************************************************************)
\* the text between the parentheses of the action the pattern finds
ActionArgText(text) ==
    LET i == Min({ k \in DOMAIN text : ActionMatchesAt(text, k) })
        j == NameIndex(text, i)
        m == Max(ClosingIndexes(text, j + 1))
    IN  SubSeq(text, j + 2, m - 1)

\* an action whose parenthesis is not closed, or whose argument text holds
\* something that is not a key=value pair
IsMalformedAction(text) ==
    /\ ActionMarker \in Range(text)
    /\ ~ HasFinalMarker(text)
    /\ \/ \A k \in DOMAIN text : ~ ActionMatchesAt(text, k)
       \/ \E t \in Range(ActionArgText(text)) : t \notin KVTokens \cup Whitespace

C18_MalformedActionIsStalled ==
    \A p \in Procs :
        \A i \in DOMAIN replies[p] :
            IsMalformedAction(replies[p][i])
                => /\ IsStalledText(replies[p][i])
                   /\ i = Len(replies[p])
                   /\ pc[p] = "returned"
                   /\ action[p] = NoAction
                   /\ result[p] = ReturnMessage(Message("assistant", StuckText))

(***************************************************************************)
(* C19 (as stated): a step that uses up its turn budget without a final    *)
(* answer appends the fixed timeout Message to the log, persists it and    *)
(* returns it, without raising.                                            *)
(***************************************************************************)
\* the loop of the step ran through its whole range
BudgetUsedUp(p) == turn[p] = MAX_TURNS

C19_TimeoutMessageIsLoggedAndReturned ==
    \A p \in Procs :
        BudgetUsedUp(p)
            => /\ pc[p] = "returned"
               /\ result[p] = ReturnMessage(Message("assistant", TimeoutText))
               /\ Last(conversation[p].messages) = Message("assistant", TimeoutText)
               /\ faults = 0
                     => Last(StoredMessages(session_id[p])) = Message("assistant", TimeoutText)

(***************************************************************************)
(* C19 (amended): a step that uses up its turn budget without a final      *)
(* answer returns the fixed timeout Message as an assistant Message,       *)
(* without raising, after MAX_TURNS LLM calls.  The timeout Message is     *)
(* only returned: it is not appended to the log and not persisted; the log *)
(* and, the store answering, the stored log end with the observation of    *)
(* the last turn.                                                          *)
(***************************************************************************)
C19_TimeoutMessageIsOnlyReturned ==
    \A p \in Procs :
        BudgetUsedUp(p)
            => /\ pc[p] = "returned"
               /\ result[p] = ReturnMessage(Message("assistant", TimeoutText))
               /\ llmCalls[p] = MAX_TURNS
               /\ \A i \in DOMAIN replies[p] : ~ HasFinalMarker(replies[p][i])
               /\ \A i \in DOMAIN conversation[p].messages :
                      conversation[p].messages[i].content # TimeoutText
               /\ \A i \in DOMAIN StoredMessages(session_id[p]) :
                      StoredMessages(session_id[p])[i].content # TimeoutText
               /\ IsObservation(Last(conversation[p].messages))
               /\ faults = 0 => StoredMessages(session_id[p]) = conversation[p].messages

\* a step has returned the timeout Message, the store holding the log up to
\* the last observation
C19_Witness ==
    /\ BudgetUsedUp(1)
    /\ pc[1] = "returned"
    /\ result[1].content = TimeoutText
    /\ faults = 0
    /\ IsObservation(Last(StoredMessages(session_id[1])))

(***************************************************************************)
(* C20: a failure of the upstream model call does not leave the LLM        *)
(* Gateway: call_llm returns an assistant Message whose content describes  *)
(* the error, and the step handles that turn as a STALLED turn: no tool is *)
(* executed, no job is submitted in it, nothing is raised, the step        *)
(* returns the clarification Message.                                      *)
(***************************************************************************)
UpstreamFailures == { up \in Upstream : up.kind \in { "api_error", "error" } }

\* the number of jobs the step submitted before its i-th model response
SubmittedBefore(p, i) ==
    Cardinality({ k \in 1..(i - 1) : IsAsyncRequest(replies[p][k]) })

UserTurns(msgs) == SelectSeq(msgs, LAMBDA m : m.role = "user" /\ ~ IsObservation(m))

\* step p is at one of its saves
AtSave(p) == pc[p] \in { "save_user", "save_final", "save_observation" }

C22_LastSaveWins ==
    [][ \A p \in Procs :
          (AtSave(p) /\ pc'[p] # pc[p])
             => store' = (session_id[p] :> ModelDumpJson(conversation[p])) @@ store ]_vars

\* two steps of one session have both appended a user turn and returned, and
\* the stored log holds one user turn
C22_Witness ==
    /\ session_id[1] = session_id[2]
    /\ pc[1] = "returned"
    /\ pc[2] = "returned"
    /\ Len(UserTurns(appended[1])) = 1
    /\ Len(UserTurns(appended[2])) = 1
    /\ Len(UserTurns(StoredMessages(session_id[1]))) = 1

(***************************************************************************)
(* C23: the job worker is a second writer on the session key.  A job the   *)
(* worker runs gets past its tool call when the tool's service answers,    *)
(* so that the worker goes on to append the result and save under the      *)
(* session key, between the saves of a step of the same session.           *)
(* In the code the tool call of tasks.py line 25 raises whatever the       *)
(* service does; the worker never appends and never saves.                 *)
(***************************************************************************)
\* what the worker's tool call for job j ends with, the service behaving as beh
WorkerCallOutcome(j, beh) ==
    RegistryExecute(WorkerCallKeywords, jobs[j].tool_name, worker[j].conversation,
                    jobs[j].tool_args, beh)

C23_WorkerIsASecondWriter ==
    \A j \in DOMAIN worker :
        (worker[j].pc = "tool_registry_execute" /\ jobs[j].tool_name \in ASYNC_TOOLS)
            => WorkerCallOutcome(j, "ok").kind = "return"

(***************************************************************************)
(* C24: within one step there is never more than one LLM Gateway call      *)
(* outstanding, never more than one inline tool call outstanding, and      *)
(* never both: a call the loop has made has returned before the loop       *)
(* makes another.                                                          *)
(***************************************************************************)
\* the call_llm calls step p has made: one per loop iteration entered
IssuedLLMCalls(p) ==
    IF pc[p] \in { "idle", "get_conversation", "save_user" } THEN 0
    ELSE IF turn[p] = MAX_TURNS THEN MAX_TURNS
    ELSE turn[p] + 1

\* the call_llm calls of step p that have not returned
OutstandingLLMCalls(p) == IF llmCalls[p] < IssuedLLMCalls(p) THEN 1 ELSE 0

\* the inline tool calls of step p that have not returned
OutstandingToolCalls(p) == IF action[p].found THEN 1 ELSE 0

C24_OneCallOutstanding ==
    \A p \in Procs :
        /\ llmCalls[p] <= IssuedLLMCalls(p)
        /\ IssuedLLMCalls(p) <= llmCalls[p] + 1
        /\ OutstandingLLMCalls(p) + OutstandingToolCalls(p) <= 1
        /\ OutstandingLLMCalls(p) = 1 <=> pc[p] = "call_llm"
        /\ OutstandingToolCalls(p) = 1 <=> pc[p] = "tool_registry_execute"

\* the second turn of a step: its second model call has returned and the
\* inline tool call it asked for is outstanding
C24_Witness ==
    /\ pc[1] = "tool_registry_execute"
    /\ turn[1] = 1
    /\ llmCalls[1] = 2
    /\ OutstandingToolCalls(1) = 1
    /\ OutstandingLLMCalls(1) = 0

(***************************************************************************)
(* C25: in every turn whose response holds a recognizable invocation only  *)
(* the first invocation of the text is acted on, in exactly one way: a     *)
(* tool of the async set gets exactly one job, submitted with the step's   *)
(* session id, the invocation's tool name and its parsed arguments, and    *)
(* is not run inline; any other tool is run inline, with the invocation's  *)
(* arguments, and no job is submitted.                                     *)
(* The pattern's argument group is greedy: it runs to the last closing     *)
(* parenthesis of the line, so the arguments of a later invocation on the  *)
(* same line are parsed into the first one's.                              *)
(***************************************************************************)
\* the first invocation of a text: the leftmost "Action: name(" and the
\* argument text up to its own closing parenthesis
FirstInvocation(text) ==
    LET i == Min({ k \in DOMAIN text : ActionMatchesAt(text, k) })
        j == NameIndex(text, i)
        m == Min(ClosingIndexes(text, j + 1))
    IN  [ tool_name |-> text[j],
          tool_args |-> ParseArgs(Strip(SubSeq(text, j + 2, m - 1))) ]

\* the turns of step p that asked for a tool of the async set, in order
AsyncTurns(p) == SelectSeq(replies[p], IsAsyncRequest)

C25_FirstInvocationHandledOneWay ==
    \A p \in Procs :
        /\ Len(submitted[p]) = Len(AsyncTurns(p))
        /\ \A k \in DOMAIN submitted[p] :
             LET job == jobs[submitted[p][k]]
                 inv == FirstInvocation(AsyncTurns(p)[k])
             IN  /\ job.session_id = session_id[p]
                 /\ job.tool_name = inv.tool_name
                 /\ job.tool_args = inv.tool_args
        /\ pc[p] = "tool_registry_execute"
             => /\ IsSyncRequest(Last(replies[p]))
                /\ action[p].tool_name = FirstInvocation(Last(replies[p])).tool_name
                /\ action[p].tool_args = FirstInvocation(Last(replies[p])).tool_args
        /\ action[p].found => pc[p] = "tool_registry_execute"

(***************************************************************************)
(* C26: a Conversation's session_id, once set, never changes, and it       *)
(* equals the key the Conversation is stored under: every value a step or  *)
(* the job worker saves under key k has session_id = k.                    *)
(***************************************************************************)
C26_SessionIdIsTheKey ==
    /\ [](\A k \in DOMAIN store :
            IsConversationJson(store[k]) => ModelValidateJson(store[k]).session_id = k)
    /\ [](\A p \in Procs : AtSave(p) => conversation[p].session_id = session_id[p])
    /\ [](\A j \in DOMAIN worker :
            worker[j].pc \in { "tool_registry_execute", "save_conversation", "returned" }
               => worker[j].conversation.session_id = jobs[j].session_id)
    /\ [][ /\ \A p \in Procs :
                conversation[p].session_id # NoneId
                   => conversation'[p].session_id = conversation[p].session_id
           /\ \A j \in DOMAIN worker :
                worker[j].conversation.session_id # NoneId
                   => worker'[j].conversation.session_id = worker[j].conversation.session_id ]_vars

\* a later step of a session has loaded the stored conversation, with its
\* session id set, and saved it again under the same key
C26_Witness ==
    /\ session_id[1] = "s1"
    /\ session_id[2] = "s1"
    /\ pc[1] = "returned"
    /\ pc[2] = "returned"
    /\ loadedLen[2] > 0
    /\ "s1" \in DOMAIN store
    /\ ModelValidateJson(store["s1"]) = conversation[2]
    /\ conversation[2].session_id = "s1"

(***************************************************************************)
(* C27: every conversation in the Session Store holds at most one system   *)
(* message, and one it holds is the first message of the log, after any    *)
(* sequence of steps and for every session id a request may carry, the     *)
(* empty string included.                                                  *)
(* The step seeds the prompt when the loaded conversation's session_id is  *)
(* falsy, which the empty session id always is.                            *)
(***************************************************************************)
C27_OneSystemMessageFirst ==
    \A k \in DOMAIN store :
        \A i \in DOMAIN StoredMessages(k) :
            StoredMessages(k)[i].role = "system" => i = 1

(***************************************************************************)
(* C28: a model turn that carries a structured tool invocation is          *)
(* classified as a tool request, and every tool-role message of a stored   *)
(* log carries the tool_call_id of the invocation it answers, an id the    *)
(* LLM Gateway issued in an earlier assistant message of that log.         *)
(* The step reads the content of the Gateway's Message and nothing else    *)
(* (lines 146-147): a structured invocation is dropped and its turn is     *)
(* classified by its text.                                                 *)
(***************************************************************************)
\* turn i of step p carried a structured invocation
CarriedToolCall(p, i) == toolCalls[p][i] # << >>

\* message m carries a tool_call_id
HasToolCallId(m) == "tool_call_id" \in DOMAIN m

SuccessfulSave(p) == AtSave(p) /\ pc'[p] # pc[p] /\ faults' = faults

\* the transition is one of a step or of the job worker
ProgramTransition == pc' # pc \/ worker' # worker \/ Len(jobs') # Len(jobs)

C29_SaveRefreshesTtlAndNothingDeletes ==
    /\ [][ \A p \in Procs :
             SuccessfulSave(p)
                => /\ session_id[p] \in DOMAIN store'
                   /\ ttl'[session_id[p]] = _session_ttl ]_vars
    /\ [][ \A k \in DOMAIN store :
             k \notin DOMAIN store'
                => /\ ~ ProgramTransition
                   /\ \E d \in Durations : ttl[k] <= d ]_vars
    /\ [][ ProgramTransition
             => \A k \in DOMAIN store :
                  k \in DOMAIN store' /\ ttl'[k] >= ttl[k] ]_vars
    /\ [](DOMAIN ttl = DOMAIN store)

\* a step is at a save of a log whose key has lost half of the lifetime the
\* step's earlier save gave it
C29_Witness ==
    /\ pc[1] \in { "save_final", "save_observation" }
    /\ session_id[1] \in DOMAIN store
    /\ ttl[session_id[1]] < _session_ttl
    /\ StoredMessages(session_id[1]) # << >>

(***************************************************************************)
(* C30: an unavailable store is never fatal to a request.  A save that     *)
(* fails returns normally: the value under the key (and its lifetime) is   *)
(* left as it was, the step's conversation is untouched and the step goes  *)
(* on to what follows the save, the next model call or the return of its   *)
(* Message; a step ends with an exception only out of an inline tool       *)
(* call, never out of the store.                                           *)
(***************************************************************************)
\* the transition is a save of step p that Redis did not answer
FailedSave(p) == AtSave(p) /\ pc'[p] # pc[p] /\ faults' = faults + 1

C30_FailedSaveIsNotFatal ==
    /\ [][ \A p \in Procs :
             FailedSave(p)
                => /\ store' = store
                   /\ ttl' = ttl
                   /\ conversation'[p] = conversation[p]
                   /\ pc'[p] \in { "call_llm", "returned" }
                   /\ pc[p] = "save_final" => pc'[p] = "returned"
                   /\ pc'[p] = "returned" => result'[p].kind = "message" ]_vars
    /\ [](\A p \in Procs :
            pc[p] = "raised"
               => /\ replies[p] # << >>
                  /\ IsSyncRequest(Last(replies[p])))

\* the step's load was answered, one of its saves was not, and the step has
\* returned its Message
C30_Witness ==
    /\ steps = 1
    /\ pc[1] = "returned"
    /\ result[1].kind = "message"
    /\ loadReachable[1]
    /\ faults = 1
    /\ StoredMessages(session_id[1]) # conversation[1].messages

(***************************************************************************)
(* C31: when the store cannot be read at the start of a step but can be    *)
(* written afterwards, the step goes on, and its first save replaces what  *)
(* was stored for the session by a conversation that starts afresh: the    *)
(* system prompt, then the new user turn, an empty workspace.  The         *)
(* session's earlier history is lost.                                      *)
(***************************************************************************)
\* the conversation a step on session s with input u starts when it has
\* loaded nothing
FreshConversation(s, u) ==
    [ session_id |-> s,
      messages   |-> << SystemMessage, Message("user", << u >>) >>,
      workspace  |-> {} ]

C31_UnreadableStoreLosesHistory ==
    [][ \A p \in Procs :
          ( /\ pc[p] = "save_user"
            /\ pc'[p] # pc[p]
            /\ ~ loadReachable[p]
            /\ faults' = faults )
             => /\ pc'[p] = "call_llm"
                /\ session_id[p] \in DOMAIN store'
                /\ store'[session_id[p]] =
                      ModelDumpJson(FreshConversation(session_id[p], user_input[p])) ]_vars

\* the second step of a session could not read the store; its first save has
\* put a fresh two-message conversation where the first step's history was
C31_Witness ==
    /\ steps = 2
    /\ faults = 1
    /\ ~ loadReachable[1]
    /\ pc[1] = "call_llm"
    /\ turn[1] = 0
    /\ StoredMessages(session_id[1]) = << SystemMessage, Message("user", << user_input[1] >>) >>

(***************************************************************************)
(* C32: the check-status tool never raises and leaves the conversation it  *)
(* is given as it was; whenever the backend answers, its text is the       *)
(* not-yet-complete text (with the state) for a task that is not finished, *)
(* the SUCCESS text for a task that succeeded and the FAILURE text for a   *)
(* task that failed or was revoked, according to the state the backend     *)
(* holds at the call.                                                      *)
(***************************************************************************)
\* the last operation was a call of the check-status tool
StatusChecked == probe.op = "check_task_status"

C32_StatusToolReturnsOneOfThreeTexts ==
    StatusChecked =>
        /\ probe.outcome = "return"
        /\ probe.result = probe.arg
        /\ probe.reachable =>
              /\ probe.status \in CeleryStates
              /\ probe.status \notin READY_STATES =>
                    probe.text = << "Task", probe.key,
                                    "is not yet complete. Its current status is", probe.status >>
              /\ probe.status = "SUCCESS" =>
                    probe.text = << "Task", probe.key, "has status SUCCESS. The result is:" >>
              /\ probe.status \in { "FAILURE", "REVOKED" } =>
                    probe.text = << "Task", probe.key, "has status FAILURE. The error was:" >>

C32_Witness ==
    /\ StatusChecked
    /\ probe.reachable
    /\ probe.key = "1"
    /\ probe.status = "FAILURE"
    /\ probe.text = << "Task", "1", "has status FAILURE. The error was:" >>
    /\ probe.arg.workspace = { "a.cif" }
    /\ 1 \in DOMAIN worker

(***************************************************************************)
(* C33: at the first LLM Gateway call of every step the Session Store      *)
(* holds, under the step's session id, the conversation with the caller's  *)
(* input as its last message.                                              *)
(***************************************************************************)
\* the caller's input as the step logs it
UserTurn(p) == Message("user", << user_input[p] >>)

\* what the step has added to the conversation it loaded
AddedByStep(p) ==
    SubSeq(conversation[p].messages, loadedLen[p] + 1, Len(conversation[p].messages))

\* the conversation of step p as it was when the user turn had been appended
UpToUserTurn(p) ==
    SubSeq(conversation[p].messages, 1,
           loadedLen[p] + (IF AddedByStep(p)[1] = SystemMessage THEN 2 ELSE 1))

C33_UserTurnStoredBeforeFirstLLMCall ==
    \A p \in Procs :
        (pc[p] = "call_llm" /\ llmCalls[p] = 0)
            => /\ session_id[p] \in DOMAIN store
               /\ StoredMessages(session_id[p]) = conversation[p].messages
               /\ Last(conversation[p].messages) = UserTurn(p)

(***************************************************************************)
(* C33 (amended): every step adds one message for the caller's input, with *)
(* role user, behind the system prompt when it seeds one and before        *)
(* anything else; the save that precedes the first LLM Gateway call stores *)
(* the conversation ending with that user turn whenever the store answers  *)
(* it, and with the store answering every operation the stored log keeps   *)
(* the conversation up to that turn as a prefix however the step ends.     *)
(***************************************************************************)
C33_UserTurnStoredWhenSaveAnswered ==
    /\ [](\A p \in Procs :
            pc[p] \notin { "idle", "get_conversation" }
               => /\ \/ AddedByStep(p)[1] = UserTurn(p)
                     \/ /\ AddedByStep(p)[1] = SystemMessage
                        /\ AddedByStep(p)[2] = UserTurn(p)
                  /\ Len(UserTurns(AddedByStep(p))) = 1)
    /\ [][ \A p \in Procs :
             (pc[p] = "save_user" /\ pc'[p] # pc[p])
                => /\ pc'[p] = "call_llm" /\ llmCalls[p] = 0
                   /\ Last(conversation[p].messages) = UserTurn(p)
                   /\ faults' = faults
                        => /\ session_id[p] \in DOMAIN store'
                           /\ store'[session_id[p]] = ModelDumpJson(conversation[p]) ]_vars
    /\ [](\A p \in Procs :
            (faults = 0 /\ pc[p] \notin { "idle", "get_conversation", "save_user" })
               => IsPrefix(UpToUserTurn(p), StoredMessages(session_id[p])))

\* a step that found a stored log stored its user turn behind it and then
\* raised from a tool call
C33_Witness ==
    /\ faults = 0
    /\ steps = 2
    /\ pc[1] = "raised"
    /\ loadedLen[1] > 0
    /\ AddedByStep(1)[1] = UserTurn(1)
    /\ StoredMessages(session_id[1])[loadedLen[1] + 1] = UserTurn(1)

(***************************************************************************)
(* C34: a turn classified STALLED leaves the Session Store as it was: the  *)
(* step returns the clarification Message without a save, no value written *)
(* to the store (which starts empty) holds an assistant message that is a  *)
(* stalled response or the clarification text, and no conversation a step  *)
(* takes to the LLM Gateway does.                                          *)
(***************************************************************************)
\* an assistant message whose text has neither the marker nor an invocation
IsStalledMessage(m) == m.role = "assistant" /\ IsStalledText(m.content)

\* step p ends STALLED in this transition
EndsStalled(p) ==
    /\ pc[p] = "call_llm"
    /\ pc'[p] = "returned"
    /\ result'[p] = ReturnMessage(Message("assistant", StuckText))

C34_StalledTurnIsNeverStored ==
    /\ [][ \A p \in Procs : EndsStalled(p) => (store' = store /\ ttl' = ttl) ]_vars
    /\ [](IsStalledMessage(Message("assistant", StuckText)))
    /\ [][ \A k \in DOMAIN store' :
             (k \notin DOMAIN store \/ store'[k] # store[k])
                => \A i \in DOMAIN StoredMessages(k)' :
                      ~ IsStalledMessage(StoredMessages(k)'[i]) ]_vars
    /\ [][ \A p \in Procs :
             (pc'[p] = "call_llm" /\ pc[p] # "call_llm")
                => \A i \in DOMAIN conversation'[p].messages :
                      ~ IsStalledMessage(conversation'[p].messages[i]) ]_vars

\* the second step of a session has stalled in its second turn: the stored
\* log is the step's conversation without the stalled response
C34_Witness ==
    /\ steps = 2
    /\ faults = 0
    /\ pc[1] = "returned"
    /\ turn[1] = 1
    /\ result[1] = ReturnMessage(Message("assistant", StuckText))
    /\ IsStalledMessage(Last(conversation[1].messages))
    /\ StoredMessages(session_id[1]) =
          SubSeq(conversation[1].messages, 1, Len(conversation[1].messages) - 1)

(***************************************************************************)
(* C35: a model response that holds both the final-answer marker and a     *)
(* parseable invocation makes the turn FINAL: the response is the step's   *)
(* last, the step goes to its final save and returns the answer, and in    *)
(* that turn no tool call is started and no job is submitted.              *)
(***************************************************************************)
\* the text holds the marker and an invocation _parse_action recognizes
HasMarkerAndAction(text) == HasFinalMarker(text) /\ _parse_action(text).found

C35_MarkerTakesPrecedenceOverAction ==
    /\ [](\A p \in Procs :
            \A i \in DOMAIN replies[p] :
                HasMarkerAndAction(replies[p][i])
                   => /\ i = Len(replies[p])
                      /\ pc[p] \in { "save_final", "returned" }
                      /\ action[p] = NoAction
                      /\ pc[p] = "returned"
                           => result[p] = ReturnMessage(Message("assistant",
                                                                FinalAnswer(replies[p][i]))))
    /\ [][ \A p \in Procs :
             ( /\ pc[p] = "call_llm"
               /\ pc'[p] # pc[p]
               /\ HasMarkerAndAction(Last(replies'[p])) )
                  => /\ pc'[p] = "save_final"
                     /\ jobs' = jobs
                     /\ submitted' = submitted
                     /\ worker' = worker ]_vars

\* the step has returned the answer of a response that also asked for the
\* async tool, and no job exists
C35_Witness ==
    /\ pc[1] = "returned"
    /\ HasMarkerAndAction(Last(replies[1]))
    /\ _parse_action(Last(replies[1])).tool_name \in ASYNC_TOOLS
    /\ jobs = << >>
    /\ result[1].kind = "message"

(***************************************************************************)
(* C36: every job in the job system is for a tool name that the Tool       *)
(* Registry holds.                                                         *)
(***************************************************************************)
C36_JobsOnlyForRegisteredTools ==
    \A j \in DOMAIN jobs : jobs[j].tool_name \in DOMAIN tools

WorkerRaised(j) == j \in DOMAIN worker /\ worker[j].pc = "raised"

\* the check-status tool is called in this transition
StatusCall == probe'.calls = probe.calls + 1 /\ probe'.op = "check_task_status"

C38_RaisingJobWritesNothingAndFails ==
    /\ [][ \A j \in DOMAIN jobs :
             (j \in DOMAIN worker /\ worker' # worker)
                => /\ store' = store
                   /\ ttl' = ttl
                   /\ WorkerRaised(j)' => jobs'[j].state = "FAILURE" ]_vars
    /\ [](\A j \in DOMAIN jobs : WorkerRaised(j) => jobs[j].state = "FAILURE")
    /\ [][ \A j \in DOMAIN jobs :
             ( /\ StatusCall
               /\ probe'.key = ToString(j)
               /\ probe'.reachable
               /\ WorkerRaised(j)
               /\ ~ jobs[j].expired )
                  => probe'.text = << "Task", ToString(j), "has status FAILURE. The error was:" >> ]_vars

\* the job failed in the worker, the session's stored conversation is the one
\* from before, and the status tool has reported the failure
C38_Witness ==
    /\ WorkerRaised(1)
    /\ StatusChecked
    /\ probe.key = "1"
    /\ probe.text = << "Task", "1", "has status FAILURE. The error was:" >>
    /\ "s1" \in DOMAIN store
    /\ store["s1"] = ModelDumpJson([ session_id |-> "s1",
                                     messages   |-> << SystemMessage, Message("user", << "q1" >>) >>,
                                     workspace  |-> {} ])

(***************************************************************************)
(* C39: a stored conversation holds the observation of a conversion made   *)
(* by the inline conversion tool exactly when its workspace holds the file *)
(* the tool wrote, and the inline call of the tool on a workspace that     *)
(* holds the source file returns with the converted file in the workspace, *)
(* for the observation and the save that follow.                           *)
(* The inline call raises before the tool runs: no workspace change of an  *)
(* inline tool is ever made, and none is stored.                           *)
(***************************************************************************)
\* the observation of a conversion that convert_structure_file has made
IsConvertObservation(m) ==
    IsObservation(m) /\ { "result of", "convert_structure_file" } \subseteq Range(m.content)

HoldsConvertObservation(c) ==
    \E i \in DOMAIN c.messages : IsConvertObservation(c.messages[i])

\* the workspace entry the tool writes
HoldsConvertedFile(c) == "a.cif" \in c.workspace

\* step p is at the inline call of the conversion of a file its workspace holds
AtConvertCall(p) ==
    /\ pc[p] = "tool_registry_execute"
    /\ action[p] = _parse_action(ConvertInvocation)
    /\ "a.xyz" \in conversation[p].workspace

\* what the inline call of step p ends with when the tool behaves as beh
InlineCallOutcome(p, beh) ==
    RegistryExecute(OrchestratorCallKeywords, action[p].tool_name,
                    conversation[p], action[p].tool_args, beh)

ReportedFinished ==
    /\ StatusChecked
    /\ probe.reachable
    /\ probe.text[3] \in { "has status SUCCESS. The result is:",
                            "has status FAILURE. The error was:" }

C40_ReportedStatusIsMonotone ==
    [][ ( /\ ReportedFinished
          /\ StatusCall
          /\ probe'.key = probe.key
          /\ probe'.reachable )
            => probe'.text[3] # "is not yet complete. Its current status is" ]_vars

=============================================================================
